---------------------------- MODULE Spec2Model ----------------------------
(***************************************************************************)
(* Model of the ADDE executor engine (go/pkg/executor): the tool           *)
(* operations create_runtime_env, execute_code_block, get_container_logs   *)
(* and cleanup_env, the exec runner they share, and the container daemon   *)
(* they talk to.  One tool invocation runs at a time (the caller           *)
(* serialises invocations); every daemon call is one step, so that a       *)
(* cancellation or a timeout can fall between any two calls.               *)
(*                                                                         *)
(* Go strings are sequences of byte symbols.  A file or a stream payload   *)
(* is a Text: raw bytes, or the JSON text of a log entry.                  *)
(***************************************************************************)
EXTENDS Integers, Sequences, FiniteSets, TLC

(***************************************************************************)
(* Bounds of the model.                                                    *)
(***************************************************************************)
\* number of create_runtime_env invocations in one behaviour
MaxCreates == 1
\* number of image builds the daemon carries out in one behaviour
MaxBuilds == 1
\* number of images the daemon adds to its store for pull_image in one behaviour
MaxPulls == 1
\* number of directories prepare_build_context creates in one behaviour
MaxStaged == 1

(***************************************************************************)
(* Program constants.                                                      *)
(***************************************************************************)
DefaultMemoryLimitBytes == 512 * 1024 * 1024
DefaultNanoCPUs == 500000000
WorkspacePathInsideContainer == "/workspace"
lastRunPath == <<".", "adde_last_run", ".", "json">>
\* timeoutSec <= 0 is normalised to this by runExec; ExecuteCodeBlock's default
DefaultTimeoutSec == 30
\* timeout of the dependency install
InstallTimeoutSec == 120
\* timeout of the cat in GetContainerLogs
LogsTimeoutSec == 10

(***************************************************************************)
(* Input domains.                                                          *)
(***************************************************************************)
Images == {<<"python", ":", "3.11-slim">>, <<"node", ":", "20">>, <<"busybox">>}
DependencyLists == {<<>>, <<<<"requests">>>>, <<<<"nosuchpkg">>>>}
EnvVarSets == {{}, {<<"K", "V">>}}
PortBindingSets == {{}, {<< <<"3000">>, <<"8080">> >>}}
\* entries of a port_bindings map: container port, host port.  The strings
\* of digits are tokens of their own; OverflowPort has more digits than an
\* int holds.
OverflowPort == "99999999999999999999"
ParsableEntries ==
    {<< <<"3000">>, <<"8080">> >>,
     << <<" ", "3000">>, <<"80", "\n">> >>,
     << <<"53", "/", "udp">>, <<"+", "80">> >>}
UnparsableEntries ==
    {<< <<"9000">>, <<>> >>,
     << <<"9001">>, <<" ", "\t">> >>,
     << <<"9002">>, <<"http">> >>,
     << <<"9003">>, <<"80", " ", "80">> >>,
     << <<"9004">>, <<OverflowPort>> >>,
     << <<" ">>, <<"8080">> >>}
\* the port_bindings maps: any of the first with none, one or all of the second
PortBindingInputs ==
    {v \cup u : v \in SUBSET ParsableEntries,
                u \in {{}, UnparsableEntries} \cup {{e} : e \in UnparsableEntries}}
\* a Go string is a sequence of tokens; "." and "/" are tokens of their own
Filenames == {<<"t", ".", "PY">>, lastRunPath}
\* file names with a directory component
NestedFilenames == {<<"sub", "/", "t", ".", "py">>}
CodeContents == {<<"print(42)">>, <<"fail">>, <<"hang">>}
TimeoutInputs == {0, 5}
TailInputs == {0}
\* wall-clock durations of an exec, in milliseconds
Durations == {4, 1506}
\* an invalid UTF-8 byte
BadByte == "\\xff"
\* the Unicode replacement character json.Marshal substitutes for it
ReplacementChar == "U+FFFD"

CIDs == 1 .. MaxCreates
NoCID == 0

(***************************************************************************)
(* Texts.                                                                  *)
(***************************************************************************)
NoDoc == [exit_code |-> "", stdout |-> <<>>, stderr |-> <<>>, execution_time |-> <<>>]
NoFile == [kind |-> "nofile", bytes |-> <<>>, doc |-> NoDoc]
Raw(b) == [kind |-> "raw", bytes |-> b, doc |-> NoDoc]
JsonText(d) == [kind |-> "json", bytes |-> <<>>, doc |-> d]
EmptyText == Raw(<<>>)

\* bytes.Buffer.Write: append a frame's payload to a buffer
BufWrite(buf, t) ==
    IF buf = EmptyText THEN t
    ELSE IF t = EmptyText THEN buf
    ELSE Raw(buf.bytes \o t.bytes)


(***************************************************************************)
(* String helpers.                                                         *)
(***************************************************************************)
IsSpace(tok) == tok \in {" ", "\n", "\t"}

RECURSIVE TrimLeft(_)
TrimLeft(b) == IF b # <<>> /\ IsSpace(Head(b)) THEN TrimLeft(Tail(b)) ELSE b

RECURSIVE TrimRight(_)
TrimRight(b) ==
    IF b # <<>> /\ IsSpace(b[Len(b)]) THEN TrimRight(SubSeq(b, 1, Len(b) - 1)) ELSE b

\* strings.TrimSpace; the JSON text of an object starts with { and ends with }
TrimSpace(t) == IF t.kind = "raw" THEN Raw(TrimRight(TrimLeft(t.bytes))) ELSE t

\* strings.ToLower on one token
ToLowerTok(tok) ==
    CASE tok = "PY" -> "py"
      [] tok = "JS" -> "js"
      [] tok = "SH" -> "sh"
      [] OTHER -> tok

ToLower(b) == [i \in 1 .. Len(b) |-> ToLowerTok(b[i])]

\* strings.Contains(s, word) for a word that is one token
ContainsWord(b, word) == \E i \in 1 .. Len(b) : b[i] = word

\* b contains sub as a contiguous subsequence
HasSubSeq(b, sub) ==
    \E i \in 1 .. (Len(b) - Len(sub) + 1) : SubSeq(b, i, i + Len(sub) - 1) = sub

\* strings.Join(list, sep)
RECURSIVE Join(_, _)
Join(list, sep) ==
    IF list = <<>> THEN <<>>
    ELSE IF Len(list) = 1 THEN Head(list)
    ELSE Head(list) \o <<sep>> \o Join(Tail(list), sep)

\* index of the last "." after the last "/", 0 when there is none (path.Ext)
LastDot(b) ==
    LET dots == {i \in 1 .. Len(b) : b[i] = "." /\ \A j \in i .. Len(b) : b[j] # "/"}
    IN IF dots = {} THEN 0 ELSE CHOOSE i \in dots : \A j \in dots : j <= i

Ext(b) == IF LastDot(b) = 0 THEN <<>> ELSE SubSeq(b, LastDot(b), Len(b))

\* path.Join(dir, name) for a name without "." or ".." elements
PathJoin(dir, name) == <<dir, "/">> \o name


(***************************************************************************)
(* Log entries and their JSON form.                                        *)
(***************************************************************************)
ExitCodes == -1 .. 127

LogEntry(ec, out, err, et) ==
    [ExitCode |-> ec, Stdout |-> out, Stderr |-> err, ExecutionTime |-> et]

NoLog == [ExitCode |-> -1, Stdout |-> NoFile, Stderr |-> NoFile, ExecutionTime |-> <<>>]

\* fmt.Sprintf("%.2fs", d.Seconds()) for a duration d in milliseconds
formatDuration(d) ==
    LET centis == (d + 5) \div 10
    IN <<ToString(centis \div 100), ".", ToString((centis % 100) \div 10),
         ToString(centis % 10), "s">>

\* json.Marshal of one string byte: invalid UTF-8 becomes \ufffd, control
\* characters are escaped
JsonEscapeTok(tok) ==
    CASE tok = BadByte -> "\\ufffd"
      [] tok = "\n" -> "\\n"
      [] tok = "\t" -> "\\t"
      [] OTHER -> tok

JsonUnescapeTok(tok) ==
    CASE tok = "\\ufffd" -> ReplacementChar
      [] tok = "\\n" -> "\n"
      [] tok = "\\t" -> "\t"
      [] OTHER -> tok

JsonEscape(t) == [i \in 1 .. Len(t.bytes) |-> JsonEscapeTok(t.bytes[i])]
JsonUnescape(b) == Raw([i \in 1 .. Len(b) |-> JsonUnescapeTok(b[i])])

\* json.Marshal(log)
Marshal(log) ==
    JsonText([exit_code |-> ToString(log.ExitCode),
              stdout |-> JsonEscape(log.Stdout),
              stderr |-> JsonEscape(log.Stderr),
              execution_time |-> log.ExecutionTime])

\* strconv of a JSON number
ParseInt(str) == CHOOSE n \in ExitCodes : ToString(n) = str

\* json.Unmarshal into a LogEntry: ok is FALSE when the text is not JSON
Unmarshal(t) ==
    IF t.kind = "json"
    THEN [ok |-> TRUE,
          log |-> LogEntry(ParseInt(t.doc.exit_code), JsonUnescape(t.doc.stdout),
                           JsonUnescape(t.doc.stderr), t.doc.execution_time)]
    ELSE [ok |-> FALSE, log |-> NoLog]

\* strings.Split(s, "\n")
RECURSIVE SplitLines(_)
SplitLines(b) ==
    LET nl == {i \in 1 .. Len(b) : b[i] = "\n"}
        first == CHOOSE i \in nl : \A j \in nl : i <= j
    IN IF nl = {} THEN <<b>>
       ELSE <<SubSeq(b, 1, first - 1)>> \o SplitLines(SubSeq(b, first + 1, Len(b)))

\* variant: a text that ends in a newline is not counted an empty last segment
tailLinesOfLines(t, n) ==
    LET all == SplitLines(t.bytes)
        lines == IF Len(all) > 1 /\ all[Len(all)] = <<>>
                 THEN SubSeq(all, 1, Len(all) - 1) ELSE all
    IN IF Len(lines) <= n THEN t
       ELSE Raw(Join(SubSeq(lines, Len(lines) - n + 1, Len(lines)), "\n"))

\* tailLines: the text when it has at most n segments, else its last n joined
tailLines(t, n) ==
    LET lines == SplitLines(t.bytes)
    IN IF Len(lines) <= n THEN t
       ELSE Raw(Join(SubSeq(lines, Len(lines) - n + 1, Len(lines)), "\n"))

(***************************************************************************)
(* Commands.                                                               *)
(***************************************************************************)
runCommandForFile(fullPath, filename) ==
    LET base == ToLower(Ext(filename))
    IN CASE base = <<".", "py">> -> << <<"python">>, fullPath >>
         [] base \in {<<".", "js">>, <<".", "mjs">>} -> << <<"node">>, fullPath >>
         [] base = <<".", "ts">> -> << <<"npx">>, <<"--yes">>, <<"ts-node">>, fullPath >>
         [] base = <<".", "sh">> -> << <<"sh">>, fullPath >>
         [] OTHER -> << <<"sh">>, <<"-c">>, fullPath >>

isPythonImage(image) == ContainsWord(ToLower(image), "python")
isNodeImage(image) == ContainsWord(ToLower(image), "node")

\* the command runDependencyInstall runs, for a non-empty deps
InstallCommand(image, deps) ==
    CASE isPythonImage(image) ->
             << <<"pip">>, <<"install">>, <<"--no-cache-dir">>, <<"-q">> >> \o deps
      [] isNodeImage(image) -> << <<"npm">>, <<"install">>, <<"-g">> >> \o deps
      [] OTHER ->
             << <<"sh">>, <<"-c">>,
                <<"command -v pip >/dev/null 2>&1 && pip install --no-cache-dir -q ">>
                    \o Join(deps, " ") \o <<" || true">> >>

CatCommand == << <<"cat">>, lastRunPath >>


(***************************************************************************)
(* What a command does when the daemon runs it in a container whose        *)
(* workspace holds the files fs: the frames it writes to the attached      *)
(* stream, its exit code, and whether it ever exits.                       *)
(***************************************************************************)
Frame(fd, b) == [fd |-> fd, data |-> Raw(b)]
Proc(frames, code, terminates) ==
    [frames |-> frames, exitCode |-> code, terminates |-> terminates]

CodeBehaviour(code) ==
    CASE code = <<"print(42)">> -> Proc(<<Frame(1, <<"4", "2", "\n">>)>>, 0, TRUE)
      [] code = <<"fail">> ->
             Proc(<<Frame(1, <<"a", BadByte>>), Frame(2, <<"E", "\n">>)>>, 3, TRUE)
      [] code = <<"hang">> -> Proc(<<Frame(1, <<"a">>)>>, 0, FALSE)
      [] OTHER -> Proc(<<Frame(2, <<"SyntaxError">>)>>, 1, TRUE)

\* the file a path under /workspace names
FileAt(fs, path) ==
    LET name == SubSeq(path, 3, Len(path))
    IN IF Len(path) >= 3 /\ path[1] = WorkspacePathInsideContainer /\ name \in DOMAIN fs
       THEN fs[name] ELSE NoFile

Behaviour(cmd, fs) ==
    CASE cmd = CatCommand ->
             IF fs[lastRunPath] = NoFile
             THEN Proc(<<Frame(2, <<"cat: No such file or directory">>)>>, 1, TRUE)
             ELSE Proc(<<[fd |-> 1, data |-> fs[lastRunPath]]>>, 0, TRUE)
      [] cmd[1] = <<"pip">> \/ cmd[1] = <<"npm">> ->
             IF \E i \in 1 .. Len(cmd) : cmd[i] = <<"nosuchpkg">>
             THEN Proc(<<Frame(2, <<"ERROR: No matching distribution">>)>>, 1, TRUE)
             ELSE Proc(<<>>, 0, TRUE)
      [] cmd[1] = <<"sh">> /\ cmd[2] = <<"-c">> /\ cmd[3][1] # WorkspacePathInsideContainer ->
             \* the best-effort install: "... || true"
             Proc(<<>>, 0, TRUE)
      [] cmd[1] = <<"sh">> /\ cmd[2] = <<"-c">> ->
             \* sh -c <path>: the file was written with mode 0644
             IF FileAt(fs, cmd[3]) = NoFile
             THEN Proc(<<Frame(2, <<"not found">>)>>, 127, TRUE)
             ELSE Proc(<<Frame(2, <<"Permission denied">>)>>, 126, TRUE)
      [] OTHER ->
             LET f == FileAt(fs, cmd[Len(cmd)])
             IN IF f = NoFile
                THEN Proc(<<Frame(2, <<"No such file or directory">>)>>, 2, TRUE)
                ELSE IF f.kind = "raw" THEN CodeBehaviour(f.bytes)
                ELSE Proc(<<Frame(2, <<"SyntaxError">>)>>, 1, TRUE)


(***************************************************************************)
(* State.                                                                  *)
(***************************************************************************)
VARIABLES
    containers,     \* daemon: container id -> "absent" | "created" | "running"
    files,          \* daemon: container id -> files of its /workspace
    exec,           \* daemon: the exec instance of the running invocation
    nCreates,       \* host: workspace directories made by MkdirTemp so far
    op,             \* the tool operation being invoked
    pc,             \* its position
    p,              \* its parameters
    loc,            \* its local variables
    ctxDone,        \* the caller's context is cancelled or past its deadline
    runCtxDone,     \* the context derived with WithTimeout is done
    calls,          \* the daemon calls the invocation has issued, in order
    result,         \* the result it returned
    lastReturned,   \* container id -> the log execute_code_block last returned
    lastPersisted,  \* container id -> the log whose upload last wrote .adde_last_run.json
    aux,            \* the earlier invocation a two-invocation comparison looks back at,
                    \* and .adde_last_run.json as the running one found it
    hist,           \* what cleanup_env has done so far, and how the invocation began
    images,         \* daemon: the image store, image id -> its tags
    hostfs,         \* host: the directory a build context path names
    cli,            \* the adde process: what main did before the operation
    environ,        \* the adde process: its environment variables
    peer            \* a second adde process: its invocation, while the first one runs

vars == <<containers, files, exec, nCreates, op, pc, p, loc, ctxDone, runCtxDone,
          calls, result, lastReturned, lastPersisted, aux, hist, images, hostfs, cli,
          environ, peer>>

\* an auth string: the empty string, or the base64 text of the JSON object
\* with the members username, password and serveraddress
NoAuth == [encoded |-> FALSE, username |-> <<>>, password |-> <<>>, serveraddress |-> <<>>]
encodeAuth(username, password, serveraddress) ==
    [encoded |-> TRUE, username |-> username, password |-> password,
     serveraddress |-> serveraddress]

NoParams ==
    [image |-> <<>>, dependencies |-> <<>>, env_vars |-> {}, network |-> FALSE,
     port_bindings |-> {}, use_image_cmd |-> FALSE, container_id |-> NoCID,
     filename |-> <<>>, code_content |-> <<>>, timeout_sec |-> 0, tail_lines |-> 0,
     context_id |-> <<>>, tag |-> <<>>, build_args |-> {}, filter_tag |-> <<>>,
     force |-> FALSE, agent_env_only |-> FALSE, files |-> {}]

\* what runExec returns
Rx(out, err, code, dur, e) ==
    [stdout |-> out, stderr |-> err, exitCode |-> code, dur |-> dur, err |-> e]
NoRx == Rx(EmptyText, EmptyText, -1, 0, "")

NoLoc ==
    [absWorkspace |-> 0, containerID |-> NoCID, cmd |-> <<>>, timeoutSec |-> 0,
     outBuf |-> EmptyText, errBuf |-> EmptyText, dur |-> 0, rx |-> NoRx, ret |-> "",
     tag |-> <<>>, summary |-> <<>>, ref |-> <<>>, auth |-> NoAuth]

NoResult ==
    [container_id |-> NoCID, workspace |-> 0, hasLog |-> FALSE, log |-> NoLog,
     ok |-> FALSE, error |-> "", status |-> "", image_id |-> 0, tag |-> <<>>,
     size |-> 0, build_log_summary |-> <<>>, failed_layer |-> <<>>,
     images |-> <<>>, deleted |-> <<>>, context_id |-> 0, Error |-> ""]
ErrorResult(e) == [NoResult EXCEPT !.error = e]

NoExec ==
    [state |-> "none", cid |-> NoCID, cmd |-> <<>>, workingDir |-> "",
     attached |-> FALSE, todo |-> <<>>, exitCode |-> 0, terminates |-> TRUE]

\* a daemon call: the operation, its arguments, and whether it succeeded
NoCall ==
    [op |-> "", ok |-> FALSE, cid |-> NoCID, image |-> <<>>, env |-> {}, cmd |-> <<>>,
     workingDir |-> "", bindSrc |-> 0, bindDst |-> "", networkMode |-> "",
     memory |-> 0, nanoCPUs |-> 0, autoRemove |-> TRUE, exposed |-> {},
     portBindings |-> {}, dstPath |-> "", tarName |-> <<>>, tarMode |-> 0,
     tarSize |-> 0, payload |-> NoFile, force |-> FALSE, tags |-> <<>>,
     dockerfile |-> <<>>, remove |-> FALSE, buildArgs |-> {}, ref |-> <<>>,
     pruneChildren |-> TRUE, registryAuth |-> NoAuth, drained |-> FALSE,
     stream |-> <<>>, scanOK |-> TRUE]

NoAux ==
    [run |-> 0, p |-> NoParams, calls |-> <<>>, result |-> NoResult, lastRun |-> NoFile]

\* no second process: the record of an invocation that has not begun;
\* interleaved: the processes have changed turns inside an invocation
NoPeer ==
    [op |-> "none", pc |-> "idle", p |-> NoParams, loc |-> NoLoc, ctxDone |-> FALSE,
     runCtxDone |-> FALSE, calls |-> <<>>, result |-> NoResult, exec |-> NoExec,
     interleaved |-> FALSE]

\* the environment variables RegistryAuthForImage reads; a variable that is
\* not set reads as the empty string
NoEnv ==
    [ADDE_DOCKERHUB_USERNAME |-> <<>>, ADDE_DOCKERHUB_PASSWORD |-> <<>>,
     ADDE_ECR_TOKEN |-> <<>>, ADDE_ECR_REGISTRY |-> <<>>, AWS_REGION |-> <<>>,
     ADDE_REGISTRY_URL |-> <<>>, ADDE_REGISTRY_USERNAME |-> <<>>,
     ADDE_REGISTRY_PASSWORD |-> <<>>]

\* the tools main has a case for
DispatchedTools ==
    {"prepare_build_context", "pull_image", "create_runtime_env", "execute_code_block",
     "get_container_logs", "cleanup_env", "build_image_from_context",
     "list_agent_images", "prune_build_cache"}

\* the adde process.  run: the invocation is one of the command line; tool:
\* os.Args[1], empty when there is none; payload: the text of the payload,
\* "unread" when main did not get it; gateway: the Docker client was
\* constructed; called: main called the operation of tool; stderr: the
\* diagnostics main wrote itself; exit: the code main exited with before or
\* instead of the operation, -1 for none
NoCli ==
    [run |-> FALSE, tool |-> "", payload |-> "unread", gateway |-> FALSE,
     called |-> FALSE, stderr |-> <<>>, exit |-> -1]

\* main constructs the Docker client before every operation
MainCallsClientFirst(name) ==
    IF name \in DispatchedTools
    THEN [NoCli EXCEPT !.run = TRUE, !.tool = name, !.payload = "{}", !.called = TRUE,
                       !.gateway = TRUE]
    ELSE NoCli

\* main has parsed the payload of a tool it has a case for, has constructed
\* the Docker client unless the tool is prepare_build_context, and calls the
\* operation; an operation main has no case for is called as a function
MainCalls(name) ==
    IF name \in DispatchedTools
    THEN [NoCli EXCEPT !.run = TRUE, !.tool = name, !.payload = "{}", !.called = TRUE,
                       !.gateway = name # "prepare_build_context"]
    ELSE NoCli

\* existed: the container of the running invocation existed when it began;
\* first: it is the first cleanup_env on that container; tried, cleaned: the
\* containers cleanup_env was invoked on, and those it removed
\* track: whether the containers cleanup_env was tried on, and those it
\* removed, are recorded
NoHist ==
    [track |-> FALSE, existed |-> FALSE, first |-> FALSE, tried |-> {}, cleaned |-> {}]

\* an image store with no image, and a context path that names no directory;
\* staged: the directories prepare_build_context has created, oldest first
NoImages == {}
NoDir == [isDir |-> FALSE, dockerfile |-> NoFile, walkOK |-> FALSE, staged |-> <<>>]

EmptyFiles == [f \in Filenames \cup NestedFilenames |-> NoFile]

\* the error of a daemon call that failed
ErrOf(done) == IF done THEN "context deadline exceeded" ELSE "daemon error"

\* outcomes of a daemon call issued under a context: it can succeed only when
\* the context is live and the daemon's state allows it; it can always fail
Outcomes(done, allowed) == {ok \in BOOLEAN : ok => (~done /\ allowed)}

Init ==
    /\ containers = [c \in CIDs |-> "absent"]
    /\ files = [c \in CIDs |-> EmptyFiles]
    /\ exec = NoExec
    /\ nCreates = 0
    /\ op = "none"
    /\ pc = "idle"
    /\ p = NoParams
    /\ loc = NoLoc
    /\ ctxDone = FALSE
    /\ runCtxDone = FALSE
    /\ calls = <<>>
    /\ result = NoResult
    /\ lastReturned = [c \in CIDs |-> NoLog]
    /\ lastPersisted = [c \in CIDs |-> NoLog]
    /\ aux = NoAux
    /\ hist = NoHist
    /\ images = NoImages
    /\ hostfs = NoDir
    /\ cli = NoCli
    /\ environ = NoEnv
    /\ peer = NoPeer

\* an invocation starts when none is running: fresh context, locals and call log
Begin(name, params) ==
    /\ pc \in {"idle", "done"}
    /\ op' = name
    /\ p' = params
    /\ ctxDone' = FALSE
    /\ runCtxDone' = FALSE
    /\ calls' = <<>>
    /\ exec' = NoExec
    /\ cli' = MainCalls(name)
    /\ environ' = environ
    /\ peer' = peer
    /\ hist' = [hist EXCEPT
           !.existed = params.container_id \in CIDs
                           /\ containers[params.container_id] # "absent",
           !.first = hist.track /\ name = "cleanup_env"
                         /\ params.container_id \notin hist.tried,
           !.tried = IF hist.track /\ name = "cleanup_env"
                            /\ params.container_id \in CIDs
                            /\ containers[params.container_id] # "absent"
                     THEN @ \cup {params.container_id} ELSE @]

\* the invocation returns res; its locals are gone and the attached stream is
\* closed
Return(res) ==
    /\ pc' = "done"
    /\ result' = res
    /\ loc' = NoLoc

\* ContainerRemove with force: the container and its exec are gone
Removed(c) ==
    /\ containers' = [containers EXCEPT ![c] = "absent"]
    /\ files' = [files EXCEPT ![c] = EmptyFiles]
    /\ lastReturned' = [lastReturned EXCEPT ![c] = NoLog]
    /\ lastPersisted' = [lastPersisted EXCEPT ![c] = NoLog]


(***************************************************************************)
(* create_runtime_env                                                      *)
(***************************************************************************)
\* variant: the network is also opened when packages are to be installed
NetworkModeForDeps(params) ==
    IF params.network \/ Len(params.dependencies) > 0 THEN "default" ELSE "none"

NetworkModeFor(params) == IF params.network THEN "default" ELSE "none"

\* strconv.Atoi succeeds
AtoiOK(b) ==
    \/ Len(b) = 1 /\ b[1] \in {"8080", "80"}
    \/ Len(b) = 2 /\ b[1] \in {"+", "-"} /\ b[2] \in {"8080", "80"}

PortKey(cPort) == IF ContainsWord(cPort, "/") THEN cPort ELSE cPort \o <<"/", "tcp">>

\* variant: the host port is not parsed
KeptPortsUnparsed(pb) ==
    {e \in pb : /\ TrimRight(TrimLeft(e[1])) # <<>>
                /\ TrimRight(TrimLeft(e[2])) # <<>>}

\* the entries the port-binding loop keeps
KeptPorts(pb) ==
    {e \in pb : /\ TrimRight(TrimLeft(e[1])) # <<>>
                /\ TrimRight(TrimLeft(e[2])) # <<>>
                /\ AtoiOK(TrimRight(TrimLeft(e[2])))}

PortMapFor(pb) ==
    {[port |-> PortKey(TrimRight(TrimLeft(e[1]))), hostIP |-> "127.0.0.1",
      hostPort |-> TrimRight(TrimLeft(e[2]))] : e \in KeptPorts(pb)}

ExposedFor(pb) == {PortKey(TrimRight(TrimLeft(e[1]))) : e \in KeptPorts(pb)}

\* the maps the loop can leave in hostCfg.PortBindings: one binding per port
\* key; kept entries with the same key overwrite one another in the order
\* the range yields them, which the language leaves open
PortMaps(pb) ==
    {m \in SUBSET PortMapFor(pb) :
        \A k \in ExposedFor(pb) : Cardinality({b \in m : b.port = k}) = 1}

\* variant: the resource caps are left out when the image's own command runs
CreateRequestImageCmd(params, absWorkspace) ==
    [NoCall EXCEPT
        !.op = "container-create",
        !.image = params.image,
        !.env = params.env_vars,
        !.cmd = IF params.use_image_cmd THEN <<>> ELSE << <<"sleep">>, <<"86400">> >>,
        !.workingDir = IF params.use_image_cmd THEN "" ELSE WorkspacePathInsideContainer,
        !.bindSrc = absWorkspace,
        !.bindDst = WorkspacePathInsideContainer,
        !.networkMode = NetworkModeFor(params),
        !.memory = IF params.use_image_cmd THEN 0 ELSE DefaultMemoryLimitBytes,
        !.nanoCPUs = IF params.use_image_cmd THEN 0 ELSE DefaultNanoCPUs,
        !.autoRemove = FALSE,
        !.exposed = ExposedFor(params.port_bindings),
        !.portBindings = PortMapFor(params.port_bindings)]

\* the container-create request CreateRuntimeEnv composes
CreateRequest(params, absWorkspace) ==
    [NoCall EXCEPT
        !.op = "container-create",
        !.image = params.image,
        !.env = params.env_vars,
        !.cmd = IF params.use_image_cmd THEN <<>> ELSE << <<"sleep">>, <<"86400">> >>,
        !.workingDir = IF params.use_image_cmd THEN "" ELSE WorkspacePathInsideContainer,
        !.bindSrc = absWorkspace,
        !.bindDst = WorkspacePathInsideContainer,
        !.networkMode = NetworkModeFor(params),
        !.memory = DefaultMemoryLimitBytes,
        !.nanoCPUs = DefaultNanoCPUs,
        !.autoRemove = FALSE,
        !.exposed = ExposedFor(params.port_bindings),
        !.portBindings = PortMapFor(params.port_bindings)]

CreateSuccess(l) ==
    [NoResult EXCEPT !.container_id = l.containerID, !.workspace = l.absWorkspace]

\* locals on entry to runExec
EnterRunExec(l, cmd, timeoutSec, ret) ==
    [l EXCEPT !.cmd = cmd,
              !.timeoutSec = IF timeoutSec <= 0 THEN DefaultTimeoutSec ELSE timeoutSec,
              !.outBuf = EmptyText, !.errBuf = EmptyText, !.dur = 0,
              !.rx = NoRx, !.ret = ret]

\* MkdirTemp, then the request is composed.  The caller works with one runtime
\* environment at a time.
CreateBegin(imageRefs, depLists, envSets, networks, portSets, useImageCmds) ==
    \E image \in imageRefs, deps \in depLists, env \in envSets,
       network \in networks, ports \in portSets, useImageCmd \in useImageCmds,
       mkdirOK \in BOOLEAN :
        /\ nCreates < MaxCreates
        /\ \A c \in CIDs : containers[c] = "absent"
        /\ Begin("create_runtime_env",
                 [NoParams EXCEPT !.image = image, !.dependencies = deps,
                                  !.env_vars = env, !.network = network,
                                  !.port_bindings = ports,
                                  !.use_image_cmd = useImageCmd])
        /\ IF mkdirOK
           THEN /\ nCreates' = nCreates + 1
                /\ loc' = [NoLoc EXCEPT !.absWorkspace = nCreates + 1]
                /\ pc' = "container_create"
                /\ result' = NoResult
           ELSE /\ Return(ErrorResult("failed to create workspace dir"))
                /\ UNCHANGED nCreates
        /\ UNCHANGED <<containers, files, lastReturned, lastPersisted>>
        /\ UNCHANGED <<aux, images, hostfs>>

StartCreate ==
    CreateBegin(Images, DependencyLists, EnvVarSets, BOOLEAN, PortBindingSets, BOOLEAN)

ContainerCreateCall ==
    /\ pc = "container_create"
    /\ \E ok \in Outcomes(ctxDone, TRUE), portMap \in PortMaps(p.port_bindings) :
        /\ calls' = Append(calls, [CreateRequest(p, loc.absWorkspace)
                                       EXCEPT !.ok = ok, !.portBindings = portMap])
        /\ IF ok
           THEN /\ containers' = [containers EXCEPT ![nCreates] = "created"]
                /\ loc' = [loc EXCEPT !.containerID = nCreates]
                /\ pc' = "container_start"
                /\ UNCHANGED result
           ELSE /\ Return(ErrorResult(ErrOf(ctxDone)))
                /\ UNCHANGED containers
    /\ UNCHANGED <<files, exec, nCreates, op, p, ctxDone, runCtxDone, lastReturned, lastPersisted>>
    /\ UNCHANGED <<aux, hist, images, hostfs, cli, environ, peer>>

ContainerStartCall ==
    /\ pc = "container_start"
    /\ \E ok \in Outcomes(ctxDone, containers[loc.containerID] = "created") :
        /\ calls' = Append(calls, [NoCall EXCEPT !.op = "container-start",
                                                 !.cid = loc.containerID, !.ok = ok])
        /\ IF ok
           THEN /\ containers' = [containers EXCEPT ![loc.containerID] = "running"]
                /\ IF Len(p.dependencies) > 0
                   THEN /\ loc' = EnterRunExec(loc, InstallCommand(p.image, p.dependencies),
                                               InstallTimeoutSec, "install_ret")
                        /\ runCtxDone' = ctxDone
                        /\ pc' = "exec_create"
                        /\ UNCHANGED result
                   ELSE /\ Return(CreateSuccess(loc))
                        /\ UNCHANGED runCtxDone
           ELSE /\ loc' = [loc EXCEPT !.rx = Rx(EmptyText, EmptyText, -1, 0, ErrOf(ctxDone))]
                /\ pc' = "remove_after_failure"
                /\ UNCHANGED <<containers, result, runCtxDone>>
    /\ UNCHANGED <<files, exec, nCreates, op, p, ctxDone, lastReturned, lastPersisted>>
    /\ UNCHANGED <<aux, hist, images, hostfs, cli, environ, peer>>

\* runDependencyInstall has returned
InstallReturn ==
    /\ pc = "install_ret"
    /\ IF loc.rx.err # ""
       THEN pc' = "remove_after_failure" /\ UNCHANGED <<result, loc>>
       ELSE Return(CreateSuccess(loc))
    /\ UNCHANGED <<containers, files, exec, nCreates, op, p, ctxDone, runCtxDone,
                   calls, lastReturned, lastPersisted>>
    /\ UNCHANGED <<aux, hist, images, hostfs, cli, environ, peer>>

\* _ = cli.ContainerRemove(ctx, resp.ID, force), then the error is returned
RemoveAfterFailure ==
    /\ pc = "remove_after_failure"
    /\ \E ok \in Outcomes(ctxDone, containers[loc.containerID] # "absent") :
        /\ calls' = Append(calls, [NoCall EXCEPT !.op = "container-remove",
                                                 !.cid = loc.containerID,
                                                 !.force = TRUE, !.ok = ok])
        /\ IF ok THEN Removed(loc.containerID)
                 ELSE UNCHANGED <<containers, files, lastReturned, lastPersisted>>
    /\ Return(ErrorResult(loc.rx.err))
    /\ UNCHANGED <<exec, nCreates, op, p, ctxDone, runCtxDone>>
    /\ UNCHANGED <<aux, hist, images, hostfs, cli, environ, peer>>


(***************************************************************************)
(* runExec: the exec runner.  loc.cmd and loc.timeoutSec are its           *)
(* arguments, loc.ret is where its caller continues, loc.rx what it        *)
(* returns.  runCtxDone is the state of runCtx.                            *)
(***************************************************************************)
\* the container the running invocation works on
TargetCID == IF op = "create_runtime_env" THEN loc.containerID ELSE p.container_id

\* variant: the process is started before the stream is attached
RunExecOrderStartFirst ==
    <<"exec_create", "exec_start", "exec_attach", "exec_read", "exec_inspect">>

\* the steps of runExec, in program order
RunExecOrder == <<"exec_create", "exec_attach", "exec_start", "exec_read", "exec_inspect">>

\* the step after step; after the last one runExec returns to its caller
StepAfter(step) ==
    LET i == CHOOSE k \in 1 .. Len(RunExecOrder) : RunExecOrder[k] = step
    IN IF i = Len(RunExecOrder) THEN loc.ret ELSE RunExecOrder[i + 1]

\* return "", "", -1, 0, err
RxFail(e) == Rx(EmptyText, EmptyText, -1, 0, e)

\* variant: the error of ContainerExecInspect is swallowed
RxInspectFailSwallowed(l, e) == Rx(l.outBuf, l.errBuf, -1, l.dur, "")

\* what runExec returns when ContainerExecInspect fails
RxInspectFail(l, e) == Rx(l.outBuf, l.errBuf, -1, l.dur, e)

ExecCreate ==
    /\ pc = "exec_create"
    /\ \E ok \in Outcomes(runCtxDone, containers[TargetCID] = "running") :
        /\ calls' = Append(calls, [NoCall EXCEPT !.op = "exec-create", !.cid = TargetCID,
                                                 !.cmd = loc.cmd,
                                                 !.workingDir = WorkspacePathInsideContainer,
                                                 !.ok = ok])
        /\ IF ok
           THEN /\ exec' = [NoExec EXCEPT !.state = "created", !.cid = TargetCID,
                                          !.cmd = loc.cmd,
                                          !.workingDir = WorkspacePathInsideContainer]
                /\ pc' = StepAfter("exec_create")
                /\ UNCHANGED loc
           ELSE /\ loc' = [loc EXCEPT !.rx = RxFail(ErrOf(runCtxDone))]
                /\ pc' = loc.ret
                /\ UNCHANGED exec
    /\ UNCHANGED <<containers, files, nCreates, op, p, ctxDone, runCtxDone, result,
                   lastReturned, lastPersisted>>
    /\ UNCHANGED <<aux, hist, images, hostfs, cli, environ, peer>>

ExecAttach ==
    /\ pc = "exec_attach"
    /\ \E ok \in Outcomes(runCtxDone, exec.state # "none") :
        /\ calls' = Append(calls, [NoCall EXCEPT !.op = "exec-attach", !.cid = TargetCID,
                                                 !.ok = ok])
        /\ IF ok
           THEN /\ exec' = [exec EXCEPT !.attached = TRUE]
                /\ pc' = StepAfter("exec_attach")
                /\ UNCHANGED loc
           ELSE /\ loc' = [loc EXCEPT !.rx = RxFail(ErrOf(runCtxDone))]
                /\ pc' = loc.ret
                /\ UNCHANGED exec
    /\ UNCHANGED <<containers, files, nCreates, op, p, ctxDone, runCtxDone, result,
                   lastReturned, lastPersisted>>
    /\ UNCHANGED <<aux, hist, images, hostfs, cli, environ, peer>>

\* the process starts; what it writes reaches the client only through a
\* stream attached beforehand
ExecStart ==
    /\ pc = "exec_start"
    /\ \E ok \in Outcomes(runCtxDone, exec.state = "created"
                                         /\ containers[exec.cid] = "running") :
        /\ calls' = Append(calls, [NoCall EXCEPT !.op = "exec-start", !.cid = TargetCID,
                                                 !.ok = ok])
        /\ IF ok
           THEN /\ LET b == Behaviour(exec.cmd, files[exec.cid])
                   IN exec' = [exec EXCEPT !.state = "running",
                                           !.todo = IF exec.attached THEN b.frames ELSE <<>>,
                                           !.exitCode = b.exitCode,
                                           !.terminates = b.terminates]
                /\ pc' = StepAfter("exec_start")
                /\ UNCHANGED loc
           ELSE /\ loc' = [loc EXCEPT !.rx = RxFail(ErrOf(runCtxDone))]
                /\ pc' = loc.ret
                /\ UNCHANGED exec
    /\ UNCHANGED <<containers, files, nCreates, op, p, ctxDone, runCtxDone, result,
                   lastReturned, lastPersisted>>
    /\ UNCHANGED <<aux, hist, images, hostfs, cli, environ, peer>>

\* stdcopy.StdCopy copies one frame into outBuf or errBuf
StdCopyFrame ==
    /\ pc = "exec_read"
    /\ exec.todo # <<>>
    /\ LET f == Head(exec.todo)
       IN loc' = IF f.fd = 1 THEN [loc EXCEPT !.outBuf = BufWrite(loc.outBuf, f.data)]
                              ELSE [loc EXCEPT !.errBuf = BufWrite(loc.errBuf, f.data)]
    /\ exec' = [exec EXCEPT !.todo = Tail(exec.todo)]
    /\ UNCHANGED <<containers, files, nCreates, op, pc, p, ctxDone, runCtxDone, calls,
                   result, lastReturned, lastPersisted>>
    /\ UNCHANGED <<aux, hist, images, hostfs, cli, environ, peer>>

\* the process has exited and the stream is at EOF; dur = time.Since(start).
\* The read of the hijacked stream does not take a context.
StdCopyEOF ==
    /\ pc = "exec_read"
    /\ exec.todo = <<>>
    /\ exec.terminates
    /\ \E d \in Durations : loc' = [loc EXCEPT !.dur = d]
    /\ exec' = [exec EXCEPT !.state = IF exec.state = "running" THEN "exited" ELSE exec.state]
    /\ calls' = Append(calls, [NoCall EXCEPT !.op = "stream-read", !.cid = TargetCID,
                                             !.ok = TRUE])
    /\ pc' = StepAfter("exec_read")
    /\ UNCHANGED <<containers, files, nCreates, op, p, ctxDone, runCtxDone, result,
                   lastReturned, lastPersisted>>
    /\ UNCHANGED <<aux, hist, images, hostfs, cli, environ, peer>>

\* the read fails with an error other than EOF
StdCopyError ==
    /\ pc = "exec_read"
    /\ calls' = Append(calls, [NoCall EXCEPT !.op = "stream-read", !.cid = TargetCID,
                                             !.ok = FALSE])
    /\ loc' = [loc EXCEPT !.rx = RxFail("stream error")]
    /\ pc' = loc.ret
    /\ UNCHANGED <<containers, files, exec, nCreates, op, p, ctxDone, runCtxDone, result,
                   lastReturned, lastPersisted>>
    /\ UNCHANGED <<aux, hist, images, hostfs, cli, environ, peer>>

ExecInspect ==
    /\ pc = "exec_inspect"
    /\ \E ok \in Outcomes(runCtxDone, exec.state # "none") :
        /\ calls' = Append(calls, [NoCall EXCEPT !.op = "exec-inspect", !.cid = TargetCID,
                                                 !.ok = ok])
        /\ loc' = [loc EXCEPT !.rx =
                       IF ok THEN Rx(loc.outBuf, loc.errBuf, exec.exitCode, loc.dur, "")
                             ELSE RxInspectFail(loc, ErrOf(runCtxDone))]
    /\ pc' = StepAfter("exec_inspect")
    /\ UNCHANGED <<containers, files, exec, nCreates, op, p, ctxDone, runCtxDone, result,
                   lastReturned, lastPersisted>>
    /\ UNCHANGED <<aux, hist, images, hostfs, cli, environ, peer>>

\* the invocation is inside runExec, CleanupEnv or the build step, where
\* runCtxDone stands for the context made by WithTimeout
InDerivedContext ==
    \/ \E k \in 1 .. Len(RunExecOrder) : pc = RunExecOrder[k]
    \/ pc \in {"container_stop", "container_remove", "image_build", "image_inspect"}

\* the caller's context is cancelled or reaches its deadline; a context derived
\* from it is done with it
Cancel ==
    /\ pc \notin {"idle", "done"}
    /\ ~ctxDone
    /\ ctxDone' = TRUE
    /\ runCtxDone' = IF InDerivedContext THEN TRUE ELSE runCtxDone
    /\ UNCHANGED <<containers, files, exec, nCreates, op, pc, p, loc, calls, result,
                   lastReturned, lastPersisted>>
    /\ UNCHANGED <<aux, hist, images, hostfs, cli, environ, peer>>

\* the timeout of runCtx expires
Expire ==
    /\ InDerivedContext
    /\ ~runCtxDone
    /\ runCtxDone' = TRUE
    /\ UNCHANGED <<containers, files, exec, nCreates, op, pc, p, loc, ctxDone, calls,
                   result, lastReturned, lastPersisted>>
    /\ UNCHANGED <<aux, hist, images, hostfs, cli, environ, peer>>


(***************************************************************************)
(* execute_code_block                                                      *)
(***************************************************************************)
\* 0644
TarMode == 6 * 64 + 4 * 8 + 4

TextLen(t) == IF t.kind = "json" THEN 1 ELSE Len(t.bytes)

\* the single-entry tar of buildTarStream
buildTarStream(filename, content) ==
    [name |-> filename, mode |-> TarMode, size |-> TextLen(content), body |-> content]

\* the CopyToContainer call that uploads tar into /workspace of container c
PutArchiveCall(c, tar, ok) ==
    [NoCall EXCEPT !.op = "put-archive", !.cid = c, !.ok = ok,
                   !.dstPath = WorkspacePathInsideContainer, !.tarName = tar.name,
                   !.tarMode = tar.mode, !.tarSize = tar.size, !.payload = tar.body]

\* variant: a file that is there already is kept
ExtractKeepsExisting(fs, tar) ==
    IF tar.name \in DOMAIN fs /\ fs[tar.name] = NoFile THEN [fs EXCEPT ![tar.name] = tar.body]
    ELSE fs

\* the daemon extracts tar into the workspace
Extract(fs, tar) == IF tar.name \in DOMAIN fs THEN [fs EXCEPT ![tar.name] = tar.body] ELSE fs

\* variant: the code is handed to the shell on the command line
ExecuteCommandInline(params) == << <<"sh">>, <<"-c">>, params.code_content >>

\* the command ExecuteCodeBlock runs
ExecuteCommand(params) ==
    runCommandForFile(PathJoin(WorkspacePathInsideContainer, params.filename),
                      params.filename)

\* the log entry assembled from what runExec returned
LogEntryOf(rx) == LogEntry(rx.exitCode, rx.stdout, rx.stderr, formatDuration(rx.dur))

\* variant: the entry is persisted as it is before the exit code is filled in
LastRunTarNoExitCode(log) ==
    buildTarStream(lastRunPath, Marshal([log EXCEPT !.ExitCode = -1]))

\* the tar persistLastRun uploads
LastRunTar(log) == buildTarStream(lastRunPath, Marshal(log))

LogResult(log) == [NoResult EXCEPT !.hasLog = TRUE, !.log = log]

\* entry of ExecuteCodeBlock: the timeout is settled
ExecuteBegin(c, filename, code, t) ==
    /\ Begin("execute_code_block",
             [NoParams EXCEPT !.container_id = c, !.filename = filename,
                              !.code_content = code, !.timeout_sec = t])
    /\ loc' = [NoLoc EXCEPT !.timeoutSec = IF t > 0 THEN t ELSE DefaultTimeoutSec]
    /\ pc' = "put_source"
    /\ result' = NoResult
    /\ UNCHANGED <<containers, files, nCreates, lastReturned, lastPersisted>>

StartExecute ==
    \E c \in CIDs, filename \in Filenames, code \in CodeContents, t \in TimeoutInputs :
        /\ ExecuteBegin(c, filename, code, t)
        /\ UNCHANGED <<aux, images, hostfs>>

PutSource ==
    /\ pc = "put_source"
    /\ LET tar == buildTarStream(p.filename, Raw(p.code_content))
       IN \E ok \in Outcomes(ctxDone, containers[p.container_id] # "absent") :
           /\ calls' = Append(calls, PutArchiveCall(p.container_id, tar, ok))
           /\ IF ok
              THEN /\ files' = [files EXCEPT ![p.container_id] = Extract(@, tar)]
                   /\ lastPersisted' = IF tar.name = lastRunPath
                                        THEN [lastPersisted EXCEPT ![p.container_id] = NoLog]
                                        ELSE lastPersisted
                   /\ loc' = EnterRunExec(loc, ExecuteCommand(p), loc.timeoutSec,
                                          "execute_ret")
                   /\ runCtxDone' = ctxDone
                   /\ pc' = "exec_create"
                   /\ UNCHANGED result
              ELSE /\ Return(ErrorResult(ErrOf(ctxDone)))
                   /\ UNCHANGED <<files, runCtxDone, lastPersisted>>
    /\ UNCHANGED <<containers, exec, nCreates, op, p, ctxDone, lastReturned>>
    /\ UNCHANGED <<aux, hist, images, hostfs, cli, environ, peer>>

\* variant: the log is persisted before the error of runExec is looked at
ExecuteReturnAlwaysPersist ==
    /\ pc = "execute_ret"
    /\ LET log == LogEntryOf(loc.rx)
           tar == LastRunTar(log)
       IN \E ok \in Outcomes(ctxDone, containers[p.container_id] # "absent") :
           /\ calls' = Append(calls, PutArchiveCall(p.container_id, tar, ok))
           /\ files' = IF ok THEN [files EXCEPT ![p.container_id] = Extract(@, tar)]
                             ELSE files
           /\ lastPersisted' = IF ok THEN [lastPersisted EXCEPT ![p.container_id] = log]
                                    ELSE lastPersisted
           /\ IF loc.rx.err # ""
              THEN Return(ErrorResult(loc.rx.err)) /\ UNCHANGED lastReturned
              ELSE /\ lastReturned' = [lastReturned EXCEPT ![p.container_id] = log]
                   /\ Return(LogResult(log))
    /\ UNCHANGED <<containers, exec, nCreates, op, p, ctxDone, runCtxDone>>
    /\ UNCHANGED <<aux, hist, images, hostfs, cli, environ, peer>>

\* variant: the error of persistLastRun is returned in place of the log
ExecuteReturnPersistFatal ==
    /\ pc = "execute_ret"
    /\ IF loc.rx.err # ""
       THEN /\ Return(ErrorResult(loc.rx.err))
            /\ UNCHANGED <<files, calls, lastReturned, lastPersisted>>
       ELSE LET log == LogEntryOf(loc.rx)
                tar == LastRunTar(log)
            IN \E ok \in Outcomes(ctxDone, containers[p.container_id] # "absent") :
                /\ calls' = Append(calls, PutArchiveCall(p.container_id, tar, ok))
                /\ files' = IF ok THEN [files EXCEPT ![p.container_id] = Extract(@, tar)]
                                  ELSE files
                /\ lastReturned' = IF ok THEN [lastReturned EXCEPT ![p.container_id] = log]
                                        ELSE lastReturned
                /\ lastPersisted' = IF ok THEN [lastPersisted EXCEPT ![p.container_id] = log]
                                         ELSE lastPersisted
                /\ Return(IF ok THEN LogResult(log) ELSE ErrorResult(ErrOf(ctxDone)))
    /\ UNCHANGED <<containers, exec, nCreates, op, p, ctxDone, runCtxDone>>
    /\ UNCHANGED <<aux, hist, images, hostfs, cli, environ, peer>>

\* runExec has returned: on error return it; else assemble the log, persist it
\* (the outcome of that put-archive is ignored) and return it
ExecuteReturn ==
    /\ pc = "execute_ret"
    /\ IF loc.rx.err # ""
       THEN /\ Return(ErrorResult(loc.rx.err))
            /\ UNCHANGED <<files, calls, lastReturned, lastPersisted>>
       ELSE LET log == LogEntryOf(loc.rx)
                tar == LastRunTar(log)
            IN \E ok \in Outcomes(ctxDone, containers[p.container_id] # "absent") :
                /\ calls' = Append(calls, PutArchiveCall(p.container_id, tar, ok))
                /\ files' = IF ok THEN [files EXCEPT ![p.container_id] = Extract(@, tar)]
                                  ELSE files
                /\ lastReturned' = [lastReturned EXCEPT ![p.container_id] = log]
                /\ lastPersisted' = IF ok THEN [lastPersisted EXCEPT ![p.container_id] = log]
                                         ELSE lastPersisted
                /\ Return(LogResult(log))
    /\ UNCHANGED <<containers, exec, nCreates, op, p, ctxDone, runCtxDone>>
    /\ UNCHANGED <<aux, hist, images, hostfs, cli, environ, peer>>

(***************************************************************************)
(* get_container_logs                                                      *)
(***************************************************************************)
NoPreviousLog == "no previous execution log found (run execute_code_block first)"

\* variant: the whitespace is trimmed from the parsed stdout and stderr too
LogsResultTrimmed(rx, tail) ==
    LET raw == TrimSpace(rx.stdout)
        parsed == Unmarshal(raw)
    IN IF rx.err # "" THEN ErrorResult(rx.err)
       ELSE IF raw = EmptyText THEN ErrorResult(NoPreviousLog)
       ELSE IF ~parsed.ok THEN ErrorResult("invalid last run data")
       ELSE LogResult([parsed.log EXCEPT !.Stdout = TrimSpace(@),
                                         !.Stderr = TrimSpace(@)])

\* what GetContainerLogs returns once runExec has returned rx
LogsResult(rx, tail) ==
    LET raw == TrimSpace(rx.stdout)
        parsed == Unmarshal(raw)
    IN IF rx.err # "" THEN ErrorResult(rx.err)
       ELSE IF raw = EmptyText THEN ErrorResult(NoPreviousLog)
       ELSE IF ~parsed.ok THEN ErrorResult("invalid last run data")
       ELSE IF tail > 0
            THEN LogResult([parsed.log EXCEPT !.Stdout = tailLines(@, tail),
                                              !.Stderr = tailLines(@, tail)])
            ELSE LogResult(parsed.log)

\* entry of GetContainerLogs with tail_lines drawn from tails
GetLogsBegin(tails) ==
    \E c \in CIDs, tail \in tails :
        /\ Begin("get_container_logs",
                 [NoParams EXCEPT !.container_id = c, !.tail_lines = tail])
        /\ loc' = EnterRunExec(NoLoc, CatCommand, LogsTimeoutSec, "logs_ret")
        /\ pc' = "exec_create"
        /\ result' = NoResult
        /\ UNCHANGED <<containers, files, nCreates, lastReturned, lastPersisted>>
        /\ UNCHANGED <<aux, images, hostfs>>

StartGetLogs == GetLogsBegin(TailInputs)

\* variant: the trimmed log is written back to .adde_last_run.json
LogsReturnWritesBack ==
    /\ pc = "logs_ret"
    /\ LET res == LogsResult(loc.rx, p.tail_lines)
           tar == LastRunTar(res.log)
       IN /\ Return(res)
          /\ calls' = IF res.hasLog
                      THEN Append(calls, PutArchiveCall(p.container_id, tar, TRUE))
                      ELSE calls
          /\ files' = IF res.hasLog
                      THEN [files EXCEPT ![p.container_id] = Extract(@, tar)]
                      ELSE files
    /\ UNCHANGED <<containers, exec, nCreates, op, p, ctxDone, runCtxDone,
                   lastReturned, lastPersisted>>
    /\ UNCHANGED <<aux, hist, images, hostfs, cli, environ, peer>>

LogsReturn ==
    /\ pc = "logs_ret"
    /\ Return(LogsResult(loc.rx, p.tail_lines))
    /\ UNCHANGED <<containers, files, exec, nCreates, op, p, ctxDone, runCtxDone,
                   calls, lastReturned, lastPersisted>>
    /\ UNCHANGED <<aux, hist, images, hostfs, cli, environ, peer>>

(***************************************************************************)
(* cleanup_env.  runCtxDone is the state of its 30-second context, which   *)
(* is derived from the caller's.                                           *)
(***************************************************************************)
StartCleanup ==
    \E c \in CIDs :
        /\ Begin("cleanup_env", [NoParams EXCEPT !.container_id = c])
        /\ loc' = NoLoc
        /\ pc' = "container_stop"
        /\ result' = NoResult
        /\ UNCHANGED <<containers, files, nCreates, lastReturned, lastPersisted>>
        /\ UNCHANGED <<aux, images, hostfs>>

\* variant: an error of ContainerStop ends the call
StopCallFatal ==
    /\ pc = "container_stop"
    /\ \E ok \in Outcomes(runCtxDone, containers[p.container_id] # "absent") :
        /\ calls' = Append(calls, [NoCall EXCEPT !.op = "container-stop",
                                                 !.cid = p.container_id, !.ok = ok])
        /\ containers' = IF ok /\ containers[p.container_id] = "running"
                         THEN [containers EXCEPT ![p.container_id] = "exited"]
                         ELSE containers
        /\ IF ok THEN pc' = "container_remove" /\ UNCHANGED <<result, loc>>
                 ELSE Return(ErrorResult(ErrOf(runCtxDone)))
    /\ UNCHANGED <<files, exec, nCreates, op, p, ctxDone, runCtxDone,
                   lastReturned, lastPersisted>>
    /\ UNCHANGED <<aux, hist, images, hostfs, cli, environ, peer>>

\* the error of ContainerStop is dropped
StopCall ==
    /\ pc = "container_stop"
    /\ \E ok \in Outcomes(runCtxDone, containers[p.container_id] # "absent") :
        /\ calls' = Append(calls, [NoCall EXCEPT !.op = "container-stop",
                                                 !.cid = p.container_id, !.ok = ok])
        /\ containers' = IF ok /\ containers[p.container_id] = "running"
                         THEN [containers EXCEPT ![p.container_id] = "exited"]
                         ELSE containers
    /\ pc' = "container_remove"
    /\ UNCHANGED <<files, exec, nCreates, op, p, loc, ctxDone, runCtxDone, result,
                   lastReturned, lastPersisted>>
    /\ UNCHANGED <<aux, hist, images, hostfs, cli, environ, peer>>

\* variant: a container that is already gone counts as removed
RemoveCallTolerant ==
    /\ pc = "container_remove"
    /\ \E ok \in Outcomes(runCtxDone, containers[p.container_id] # "absent") :
        /\ calls' = Append(calls, [NoCall EXCEPT !.op = "container-remove",
                                                 !.cid = p.container_id,
                                                 !.force = TRUE, !.ok = ok])
        /\ IF ok
           THEN /\ Removed(p.container_id)
                /\ hist' = [hist EXCEPT
                       !.cleaned = IF hist.track THEN @ \cup {p.container_id} ELSE @]
                /\ Return([NoResult EXCEPT !.ok = TRUE])
           ELSE /\ UNCHANGED <<containers, files, lastReturned, lastPersisted, hist>>
                /\ IF containers[p.container_id] = "absent"
                   THEN Return([NoResult EXCEPT !.ok = TRUE])
                   ELSE Return(ErrorResult(ErrOf(runCtxDone)))
    /\ UNCHANGED <<exec, nCreates, op, p, ctxDone, runCtxDone>>
    /\ UNCHANGED <<aux, images, hostfs, cli, environ, peer>>

RemoveCall ==
    /\ pc = "container_remove"
    /\ \E ok \in Outcomes(runCtxDone, containers[p.container_id] # "absent") :
        /\ calls' = Append(calls, [NoCall EXCEPT !.op = "container-remove",
                                                 !.cid = p.container_id,
                                                 !.force = TRUE, !.ok = ok])
        /\ IF ok
           THEN /\ Removed(p.container_id)
                /\ hist' = [hist EXCEPT
                       !.cleaned = IF hist.track THEN @ \cup {p.container_id} ELSE @]
                /\ Return([NoResult EXCEPT !.ok = TRUE])
           ELSE /\ UNCHANGED <<containers, files, lastReturned, lastPersisted, hist>>
                /\ Return(ErrorResult(ErrOf(runCtxDone)))
    /\ UNCHANGED <<exec, nCreates, op, p, ctxDone, runCtxDone>>
    /\ UNCHANGED <<aux, images, hostfs, cli, environ, peer>>

(***************************************************************************)
(* Image operations: build_image_from_context, list_agent_images and       *)
(* delete_image.  Tags, image references and the Dockerfile are sequences  *)
(* of characters.                                                          *)
(***************************************************************************)
AgentImageTagPrefix == <<"a", "g", "e", "n", "t", "-", "e", "n", "v", ":">>

\* strings.HasPrefix
HasPrefix(str, prefix) ==
    Len(str) >= Len(prefix) /\ SubSeq(str, 1, Len(prefix)) = prefix

\* strings.HasSuffix
HasSuffix(str, suffix) ==
    Len(str) >= Len(suffix)
        /\ SubSeq(str, Len(str) - Len(suffix) + 1, Len(str)) = suffix

\* strings.TrimSpace on a sequence of characters
TrimSpaceStr(str) == TrimRight(TrimLeft(str))

\* case folding of (?i): a letter and its other case match each other
FoldTable ==
    LET UpperCase == <<"A", "B", "C", "D", "E", "F", "G", "H", "I", "J", "K", "L", "M", "N",
            "O", "P", "Q", "R", "S", "T", "U", "V", "W", "X", "Y", "Z">>
        LowerCase == <<"a", "b", "c", "d", "e", "f", "g", "h", "i", "j", "k", "l", "m", "n",
            "o", "p", "q", "r", "s", "t", "u", "v", "w", "x", "y", "z">>
    IN [c \in {UpperCase[k] : k \in 1 .. Len(UpperCase)} |->
           LowerCase[CHOOSE k \in 1 .. Len(UpperCase) : UpperCase[k] = c]]

FoldCh(c) == IF c \in DOMAIN FoldTable THEN FoldTable[c] ELSE c

\* the literal lit (in lower case) matches str at position i, case folded
LitAt(str, i, lit) ==
    /\ i >= 1
    /\ i + Len(lit) - 1 <= Len(str)
    /\ \A k \in 1 .. Len(lit) : FoldCh(str[i + k - 1]) = lit[k]

\* the class \s of the regexp syntax
IsRegexpSpace(c) == c \in {" ", "\t", "\n", "\r", "\f"}

\* the literals of the patterns
DockerSock == <<"d", "o", "c", "k", "e", "r", ".", "s", "o", "c", "k">>
VarRunDockerSock == <<"/", "v", "a", "r", "/", "r", "u", "n", "/", "d", "o", "c", "k", "e", "r",
    ".", "s", "o", "c", "k">>

\* (?i)/var/run/docker\.sock
MatchesSockPath(str) == \E i \in 1 .. Len(str) : LitAt(str, i, VarRunDockerSock)

\* (?i)-v\s+[^\\s]*docker\.sock : in the source the class is written [^\\s]
\* inside a raw string, which is every character but the backslash and the
\* letter s
MatchesVolumeFlag(str) ==
    \E i \in 1 .. Len(str) :
        /\ LitAt(str, i, <<"-", "v">>)
        /\ \E j \in (i + 3) .. Len(str) :
               /\ LitAt(str, j, DockerSock)
               /\ \E k \in (i + 2) .. (j - 1) :
                      /\ \A x \in (i + 2) .. k : IsRegexpSpace(str[x])
                      /\ \A x \in (k + 1) .. (j - 1) :
                             FoldCh(str[x]) \notin {"\\", "s"}

\* (?i)--mount[^\\n]*docker\.sock : the class [^\\n] of the source is every
\* character but the backslash and the letter n
MatchesMountFlag(str) ==
    \E i \in 1 .. Len(str) :
        /\ LitAt(str, i, <<"-", "-", "m", "o", "u", "n", "t">>)
        /\ \E j \in (i + 7) .. Len(str) :
               /\ LitAt(str, j, DockerSock)
               /\ \A x \in (i + 7) .. (j - 1) : FoldCh(str[x]) \notin {"\\", "n"}

\* (?i)privileged\s*true
MatchesPrivileged(str) ==
    \E i \in 1 .. Len(str) :
        /\ LitAt(str, i, <<"p", "r", "i", "v", "i", "l", "e", "g", "e", "d">>)
        /\ \E j \in (i + 10) .. Len(str) :
               /\ LitAt(str, j, <<"t", "r", "u", "e">>)
               /\ \A x \in (i + 10) .. (j - 1) : IsRegexpSpace(str[x])

\* some pattern of forbiddenDockerfilePatterns matches
forbiddenDockerfilePatterns(str) ==
    \/ MatchesSockPath(str)
    \/ MatchesVolumeFlag(str)
    \/ MatchesMountFlag(str)
    \/ MatchesPrivileged(str)

SecurityError ==
    "Dockerfile contains forbidden pattern (e.g. docker.sock mount or privileged): security check failed"

\* validateDockerfile: the error, "" for none
validateDockerfile(content) ==
    IF forbiddenDockerfilePatterns(content) THEN SecurityError ELSE ""

\* Dockerfiles a context directory can hold
Dockerfiles ==
    {\* FROM a
     <<"F", "R", "O", "M", " ", "a">>,
     \* --mount=bind:/var/run/docker.sock
     <<"-", "-", "m", "o", "u", "n", "t", "=", "b", "i", "n", "d", ":", "/",
      "v", "a", "r", "/", "r", "u", "n", "/", "d", "o", "c", "k", "e", "r", ".",
      "s", "o", "c", "k">>,
     \* --mount=bind:/run/docker.sock
     <<"-", "-", "m", "o", "u", "n", "t", "=", "b", "i", "n", "d", ":", "/",
      "r", "u", "n", "/", "d", "o", "c", "k", "e", "r", ".", "s", "o", "c",
      "k">>,
     \* -v /u/s/docker.sock
     <<"-", "v", " ", "/", "u", "/", "s", "/", "d", "o", "c", "k", "e", "r",
      ".", "s", "o", "c", "k">>,
     \* -v <tab>/run/docker.sock
     <<"-", "v", " ", "\t", "/", "r", "u", "n", "/", "d", "o", "c", "k", "e",
      "r", ".", "s", "o", "c", "k">>,
     \* PRIVILEGED <newline>True
     <<"P", "R", "I", "V", "I", "L", "E", "G", "E", "D", " ", "\n", "T", "r",
      "u", "e">>,
     \* --mount=src=/a/DOCKER.SOCK
     <<"-", "-", "m", "o", "u", "n", "t", "=", "s", "r", "c", "=", "/", "a",
      "/", "D", "O", "C", "K", "E", "R", ".", "S", "O", "C", "K">>}

\* the state of the directory a context path names
ContextDirs ==
    {NoDir, [NoDir EXCEPT !.isDir = TRUE, !.walkOK = TRUE],
     [NoDir EXCEPT !.isDir = TRUE,
                   !.dockerfile = Raw(<<"F", "R", "O", "M", " ", "a">>)]}
        \cup {[NoDir EXCEPT !.isDir = TRUE, !.dockerfile = Raw(d), !.walkOK = TRUE] :
                  d \in Dockerfiles}

ContextIDs == {<<>>, <<"/", "t", "m", "p", "/", "c">>}

TagInputs ==
    {<<>>, <<" ", "\t">>, <<"m">>,
     <<" ">> \o AgentImageTagPrefix \o <<"t", "\n">>,
     <<"A", "g", "e", "n", "t", "-", "e", "n", "v", ":", "t">>}

BuildArgSets == {{<<"K", "V">>}}

\* time.Now().Unix() printed with %d
UnixTimes == {<<"1", "7">>, <<"1", "8">>}

BuildTagStem == AgentImageTagPrefix \o <<"b", "u", "i", "l", "d", "-">>

\* variant: the prefix is never prepended
ResolveTagUnprefixed(tag, now) ==
    LET trimmed == TrimSpaceStr(tag)
    IN IF trimmed = <<>> THEN BuildTagStem \o now ELSE trimmed

\* variant: the prefix is prepended without a look at the tag
ResolveTagAlwaysPrefixed(tag, now) ==
    LET trimmed == TrimSpaceStr(tag)
        named == IF trimmed = <<>> THEN BuildTagStem \o now ELSE trimmed
    IN AgentImageTagPrefix \o named

\* the tag BuildImageFromContext builds under
ResolveTag(tag, now) ==
    LET trimmed == TrimSpaceStr(tag)
        named == IF trimmed = <<>> THEN BuildTagStem \o now ELSE trimmed
    IN IF HasPrefix(named, AgentImageTagPrefix) THEN named
       ELSE AgentImageTagPrefix \o named

\* what the daemon can answer to image-build: the lines of the response stream
BuildStreams ==
    {<<>>,
     << <<"{", "\"stream\"", ":", "Step 1/1", "}">>, <<"{", "\"aux\"", ":", "sha256", "}">> >>,
     << <<"{", "\"stream\"", ":", "Step 1/1", "}">>,
        <<"{", "\"errorDetail\"", ":", "{", "}", ",", "\"error\"", ":", "no", "}">> >>,
     << <<"{", "\"errorDetail\"", ":", "{", "}", ",", "\"error\"", ":", "no", "}">>,
        <<"{", "\"stream\"", ":", "Step 1/1", "}">> >>,
     << <<"{", "\"error\"", ":", "exit code 1", "}", " ">> >>,
     << <<"\"error\"", " ", "in plain text">> >>}

\* the last line of lines that starts with { and contains word, <<>> for none
RECURSIVE LastLineWith(_, _)
LastLineWith(lines, word) ==
    IF lines = <<>> THEN <<>>
    ELSE LET l == lines[Len(lines)]
         IN IF HasPrefix(l, <<"{">>) /\ ContainsWord(l, word) THEN l
            ELSE LastLineWith(SubSeq(lines, 1, Len(lines) - 1), word)

\* variant: a stream line is preferred to an error line
parseBuildOutputStreamFirst(lines, scanOK) ==
    LET lastError == LastLineWith(lines, "\"error\"")
        lastStream == LastLineWith(lines, "\"stream\"")
    IN IF ~scanOK
       THEN [summary |-> <<>>, failedLayer |-> <<>>, err |-> "read error"]
       ELSE IF lastStream # <<>>
       THEN [summary |-> lastStream, failedLayer |-> <<>>, err |-> ""]
       ELSE IF lastError # <<>>
       THEN [summary |-> TrimSpaceStr(lastError), failedLayer |-> TrimSpaceStr(lastError),
             err |-> "build failed"]
       ELSE [summary |-> <<"Build completed. ", ToString(Len(lines)),
                           " lines of output.">>,
             failedLayer |-> <<>>, err |-> ""]

\* parseBuildOutput: summary, failedLayer and the error ("" for none)
parseBuildOutput(lines, scanOK) ==
    LET lastError == LastLineWith(lines, "\"error\"")
        lastStream == LastLineWith(lines, "\"stream\"")
    IN IF ~scanOK
       THEN [summary |-> <<>>, failedLayer |-> <<>>, err |-> "read error"]
       ELSE IF lastError # <<>>
       THEN [summary |-> TrimSpaceStr(lastError), failedLayer |-> TrimSpaceStr(lastError),
             err |-> "build failed"]
       ELSE IF lastStream # <<>>
       THEN [summary |-> lastStream, failedLayer |-> <<>>, err |-> ""]
       ELSE [summary |-> <<"Build completed. ", ToString(Len(lines)),
                           " lines of output.">>,
             failedLayer |-> <<>>, err |-> ""]

\* the daemon reports a failed build by an error event in the stream
BuildFailed(lines) ==
    \E i \in 1 .. Len(lines) :
        Head(lines[i]) = "{" /\ ContainsWord(lines[i], "\"error\"")

\* an image of the store: its id, its RepoTags, its size in bytes and its
\* creation time
Image(id, tags, size, created) ==
    [id |-> id, tags |-> tags, size |-> size, created |-> created]

\* the images the daemon holds at the start have the ids 1 and 2
StoredIDs == {1, 2}

\* tag t is taken off every image of store
RECURSIVE Without(_, _)
Without(tags, t) ==
    IF tags = <<>> THEN <<>>
    ELSE IF Head(tags) = t THEN Without(Tail(tags), t)
    ELSE <<Head(tags)>> \o Without(Tail(tags), t)

Untagged(store, t) == {[im EXCEPT !.tags = Without(@, t)] : im \in store}

ImageIDs(store) == {im.id : im \in store}

\* the images built or pulled since the start
BuiltImages(store) == {im \in store : im.id \notin StoredIDs}

\* the daemon has built an image and tagged it t
Built(store, t) ==
    LET ids == ImageIDs(store) \cup StoredIDs
        id == 1 + CHOOSE m \in ids : \A k \in ids : k <= m
    IN Untagged(store, t) \cup {Image(id, <<t>>, 3 * 1024 * 1024, 7)}

\* variant: an early return that sets the error and leaves the status empty
BuildErrorNoStatus(e) == [NoResult EXCEPT !.error = e]

\* a result of BuildImageFromContext that reports the failure e
BuildError(e) == [NoResult EXCEPT !.status = "error", !.error = e]

\* BuildImageFromContext up to the image-build call: the checks of the
\* context directory and of the Dockerfile, the tar, the tag
StartBuild ==
    LET refused == validateDockerfile(hostfs.dockerfile.bytes)
    IN
    /\ Cardinality(BuiltImages(images)) < MaxBuilds
    /\ \E context \in ContextIDs, tag \in TagInputs, args \in BuildArgSets,
          now \in UnixTimes :
        /\ Begin("build_image_from_context",
                 [NoParams EXCEPT !.context_id = context, !.tag = tag,
                                  !.build_args = args])
        /\ IF context = <<>>
           THEN Return(BuildError("context_id is required"))
           ELSE IF ~hostfs.isDir
           THEN Return(BuildError("context_id is not a valid directory"))
           ELSE IF hostfs.dockerfile = NoFile
           THEN Return(BuildError("Dockerfile not found or unreadable"))
           ELSE IF refused # ""
           THEN Return(BuildError(refused))
           ELSE IF ~hostfs.walkOK
           THEN Return(BuildError("failed to create build context"))
           ELSE /\ loc' = [NoLoc EXCEPT !.tag = ResolveTag(tag, now)]
                /\ pc' = "image_build"
                /\ result' = NoResult
        /\ UNCHANGED <<containers, files, nCreates, lastReturned, lastPersisted, aux,
                       images, hostfs>>

\* cli.ImageBuild under buildCtx, then the response stream is read to its end
\* and parsed
ImageBuildCall ==
    /\ pc = "image_build"
    /\ \E ok \in Outcomes(runCtxDone, TRUE), lines \in BuildStreams, scanOK \in BOOLEAN :
        /\ calls' = Append(calls, [NoCall EXCEPT !.op = "image-build", !.ok = ok,
                                                 !.tags = <<loc.tag>>,
                                                 !.dockerfile = <<"Dockerfile">>,
                                                 !.remove = TRUE,
                                                 !.buildArgs = p.build_args,
                                                 !.stream = IF ok THEN lines ELSE <<>>,
                                                 !.scanOK = ok => scanOK])
        /\ IF ~ok
           THEN /\ Return(BuildError(ErrOf(runCtxDone)))
                /\ UNCHANGED images
           ELSE   LET parsed == parseBuildOutput(lines, scanOK)
                  IN /\ images' = IF BuildFailed(lines) THEN images
                                   ELSE Built(images, loc.tag)
                     /\ IF parsed.err # ""
                        THEN Return([BuildError(parsed.err) EXCEPT
                                        !.build_log_summary = parsed.summary,
                                        !.failed_layer = parsed.failedLayer])
                        ELSE /\ loc' = [loc EXCEPT !.summary = parsed.summary]
                             /\ pc' = "image_inspect"
                             /\ UNCHANGED result
    /\ UNCHANGED <<containers, files, exec, nCreates, op, p, ctxDone, runCtxDone,
                   lastReturned, lastPersisted, aux, hist, hostfs, cli, environ, peer>>

\* getImageInfo: an error of ImageInspectWithRaw leaves id and size zero
ImageInspectCall ==
    /\ pc = "image_inspect"
    /\ \E ok \in Outcomes(runCtxDone,
                           \E im \in images : ContainsWord(im.tags, loc.tag)) :
        /\ calls' = Append(calls, [NoCall EXCEPT !.op = "image-inspect", !.ok = ok,
                                                 !.ref = loc.tag])
        /\ LET im == CHOOSE im \in images : ContainsWord(im.tags, loc.tag)
           IN Return([NoResult EXCEPT
                         !.status = "success",
                         !.image_id = IF ok THEN im.id ELSE 0,
                         !.tag = loc.tag,
                         !.size = IF ok THEN im.size ELSE 0,
                         !.build_log_summary = loc.summary])
    /\ UNCHANGED <<containers, files, exec, nCreates, op, p, ctxDone, runCtxDone,
                   lastReturned, lastPersisted, aux, hist, images, hostfs, cli, environ, peer>>

\* what the daemon holds at the start
TagT == AgentImageTagPrefix \o <<"t">>
TagLookalike == <<"a", "g", "e", "n", "t", "-", "e", "n", "v", "x", ":", "t">>

ImageStores ==
    {{},
     {Image(1, <<<<"p", "y", ":", "3">>, TagT, AgentImageTagPrefix \o <<"m">>>>,
            2 * 1024 * 1024, 5),
      Image(2, <<TagLookalike>>, 1, 0)}}

FilterInputs == {<<>>, <<" ", "t", " ">>, TagT, <<"p", "y", ":">>}

\* every order the daemon can list the store in
RECURSIVE Orderings(_)
Orderings(store) ==
    IF store = {} THEN {<<>>}
    ELSE UNION {{<<im>> \o rest : rest \in Orderings(store \ {im})} : im \in store}

\* the prefix ListAgentImages filters by
FilterPrefixFor(filterTag) ==
    IF filterTag = <<>> THEN AgentImageTagPrefix
    ELSE LET trimmed == TrimSpaceStr(filterTag)
         IN IF ~HasSuffix(trimmed, <<":">>) /\ ~ContainsWord(trimmed, ":")
            THEN AgentImageTagPrefix \o trimmed
            ELSE trimmed

\* variant: only the filter prefix is looked at
MatchingTagsFilterOnly(tags, filterPrefix) ==
    LET Keep(t) == HasPrefix(t, filterPrefix)
    IN SelectSeq(tags, Keep)

\* the tags of one image that ListAgentImages keeps
MatchingTags(tags, filterPrefix) ==
    LET Keep(t) == HasPrefix(t, AgentImageTagPrefix) /\ HasPrefix(t, filterPrefix)
    IN SelectSeq(tags, Keep)

\* time.Unix(created, 0).Format(time.RFC3339)
FormatRFC3339(created) == <<"1970-01-01T00:00:0", ToString(created), "Z">>

AgentImageEntry(im, tags) ==
    [id |-> im.id, tags |-> tags, size_mb |-> <<im.size, "/", 1024 * 1024>>,
     created |-> IF im.created > 0 THEN FormatRFC3339(im.created) ELSE <<>>]

\* the entries ListAgentImages returns for the daemon's list
RECURSIVE ListEntries(_, _)
ListEntries(list, filterPrefix) ==
    IF list = <<>> THEN <<>>
    ELSE LET matching == MatchingTags(Head(list).tags, filterPrefix)
             rest == ListEntries(Tail(list), filterPrefix)
         IN IF matching = <<>> THEN rest
            ELSE <<AgentImageEntry(Head(list), matching)>> \o rest

StartList ==
    \E filter \in FilterInputs :
        /\ Begin("list_agent_images", [NoParams EXCEPT !.filter_tag = filter])
        /\ loc' = NoLoc
        /\ pc' = "image_list"
        /\ result' = NoResult
        /\ UNCHANGED <<containers, files, nCreates, lastReturned, lastPersisted, aux,
                       images, hostfs>>

ImageListCall ==
    /\ pc = "image_list"
    /\ \E ok \in Outcomes(ctxDone, TRUE) :
        /\ calls' = Append(calls, [NoCall EXCEPT !.op = "image-list", !.ok = ok])
        /\ IF ok
           THEN \E list \in Orderings(images) :
                   Return([NoResult EXCEPT
                              !.images = ListEntries(list, FilterPrefixFor(p.filter_tag))])
           ELSE Return(ErrorResult(ErrOf(ctxDone)))
    /\ UNCHANGED <<containers, files, exec, nCreates, op, p, ctxDone, runCtxDone,
                   lastReturned, lastPersisted, aux, hist, images, hostfs, cli, environ, peer>>

RefInputs == {<<>>, <<" ">>, TagT, <<" ">> \o TagT \o <<" ">>, TagLookalike}

AgentOnlyError ==
    "only agent-created images can be deleted (image must start with \"agent-env:\"); use list_agent_images to see allowed tags"

\* variant: agent_env_only is not looked at
StartDeleteUngated ==
    \E image \in RefInputs, force \in BOOLEAN, agentEnvOnly \in BOOLEAN :
        /\ Begin("delete_image",
                 [NoParams EXCEPT !.image = image, !.force = force,
                                  !.agent_env_only = agentEnvOnly])
        /\ LET img == TrimSpaceStr(image)
           IN IF img = <<>>
              THEN Return(ErrorResult("image is required"))
              ELSE /\ loc' = [NoLoc EXCEPT !.tag = img]
                   /\ pc' = "image_remove"
                   /\ result' = NoResult
        /\ UNCHANGED <<containers, files, nCreates, lastReturned, lastPersisted, aux,
                       images, hostfs>>

\* DeleteImage up to the image-remove call
StartDelete ==
    \E image \in RefInputs, force \in BOOLEAN, agentEnvOnly \in BOOLEAN :
        /\ Begin("delete_image",
                 [NoParams EXCEPT !.image = image, !.force = force,
                                  !.agent_env_only = agentEnvOnly])
        /\ LET img == TrimSpaceStr(image)
           IN IF img = <<>>
              THEN Return(ErrorResult("image is required"))
              ELSE IF agentEnvOnly /\ ~HasPrefix(img, AgentImageTagPrefix)
              THEN Return(ErrorResult(AgentOnlyError))
              ELSE /\ loc' = [NoLoc EXCEPT !.tag = img]
                   /\ pc' = "image_remove"
                   /\ result' = NoResult
        /\ UNCHANGED <<containers, files, nCreates, lastReturned, lastPersisted, aux,
                       images, hostfs>>

\* the daemon takes the tag off its image and deletes the image when that was
\* its last tag
Deleted(store, ref) == {im \in Untagged(store, ref) : im.tags # <<>> \/ im \in store}

\* the response items of image-remove
RemoveResponse(store, ref) ==
    LET im == CHOOSE x \in store : ContainsWord(x.tags, ref)
    IN <<[Untagged |-> ref, Deleted |-> <<>>]>>
           \o (IF Without(im.tags, ref) = <<>>
               THEN <<[Untagged |-> <<>>, Deleted |-> <<"sha256:", ToString(im.id)>>]>>
               ELSE <<>>)

\* the refs DeleteImage reports for the response items
RECURSIVE DeletedRefs(_)
DeletedRefs(items) ==
    IF items = <<>> THEN <<>>
    ELSE (IF Head(items).Deleted # <<>>
          THEN << <<"Deleted: ">> \o Head(items).Deleted >> ELSE <<>>)
         \o (IF Head(items).Untagged # <<>>
             THEN << <<"Untagged: ">> \o Head(items).Untagged >> ELSE <<>>)
         \o DeletedRefs(Tail(items))

ImageRemoveCall ==
    /\ pc = "image_remove"
    /\ \E ok \in Outcomes(ctxDone, \E im \in images : ContainsWord(im.tags, loc.tag)) :
        /\ calls' = Append(calls, [NoCall EXCEPT !.op = "image-remove", !.ok = ok,
                                                 !.ref = loc.tag, !.force = p.force,
                                                 !.pruneChildren = FALSE])
        /\ IF ok
           THEN /\ images' = Deleted(images, loc.tag)
                /\ Return([NoResult EXCEPT
                              !.ok = TRUE,
                              !.deleted = DeletedRefs(RemoveResponse(images, loc.tag))])
           ELSE /\ UNCHANGED images
                /\ Return(ErrorResult(ErrOf(ctxDone)))
    /\ UNCHANGED <<containers, files, exec, nCreates, op, p, ctxDone, runCtxDone,
                   lastReturned, lastPersisted, aux, hist, hostfs, cli, environ, peer>>

(***************************************************************************)
(* pull_image                                                              *)
(***************************************************************************)
\* image references; ".", ":" and "/" are tokens of their own
EcrHost == <<"123", ".", "dkr", ".", "ecr", ".", "us-east-1", ".", "amazonaws", ".", "com">>
PullRefs ==
    {<<>>,
     <<" ", "\t">>,
     <<" ", "p", "y", ":", "3", "\n">>,
     <<"python">>,
     <<"python", ":", "3", ".", "11-slim">>,
     <<"library", "/", "python", ":", "3">>,
     <<"docker", ".", "io", "/", "library", "/", "python">>,
     EcrHost \o <<"/", "img">>,
     <<"reg", ".", "example", ".", "com", "/", "img">>,
     <<"evil", ".", "example", ".", "com", "/", "amazonaws", ".", "com", "/", "img">>}

\* the environments of the process: the token, the region and the registry of
\* ECR, the Docker Hub credentials, the generic registry and its credentials
HubEnvs ==
    {[u |-> <<>>, w |-> <<>>], [u |-> <<"hubuser">>, w |-> <<>>],
     [u |-> <<"hubuser">>, w |-> <<"hubpass">>]}
RegistryEnvs ==
    {[url |-> <<>>, u |-> <<>>, w |-> <<>>],
     [url |-> <<"reg", ".", "example", ".", "com">>, u |-> <<"reguser">>, w |-> <<>>],
     [url |-> <<" ", "https", ":", "/", "/", "reg", ".", "example", ".", "com">>,
      u |-> <<"reguser">>, w |-> <<"regpass">>]}
Environments ==
    {[ADDE_DOCKERHUB_USERNAME |-> hub.u, ADDE_DOCKERHUB_PASSWORD |-> hub.w,
      ADDE_ECR_TOKEN |-> token, ADDE_ECR_REGISTRY |-> ecr, AWS_REGION |-> region,
      ADDE_REGISTRY_URL |-> reg.url, ADDE_REGISTRY_USERNAME |-> reg.u,
      ADDE_REGISTRY_PASSWORD |-> reg.w] :
        hub \in HubEnvs, reg \in RegistryEnvs, token \in {<<>>, <<" ", "ecrtok", "\n">>},
        ecr \in {<<>>, EcrHost}, region \in {<<>>, <<"eu-west-1">>}}

\* what `aws ecr get-login-password` gives when it is run: its standard
\* output, or the error of cmd.Output
AwsOutcomes ==
    {[out |-> <<"awstok", "\n">>, err |-> ""], [out |-> <<>>, err |-> ""],
     [out |-> <<>>, err |-> "exit status 1"]}

\* strings.Index, counted from 1; 0 when tok does not occur
Index(str, tok) ==
    IF \E i \in DOMAIN str : str[i] = tok
    THEN CHOOSE i \in DOMAIN str : str[i] = tok /\ \A j \in 1 .. (i - 1) : str[j] # tok
    ELSE 0

\* strings.TrimPrefix
TrimPrefix(str, prefix) ==
    IF HasPrefix(str, prefix) THEN SubSeq(str, Len(prefix) + 1, Len(str)) ELSE str

\* strings.Split(str, ".")
RECURSIVE SplitDots(_)
SplitDots(str) ==
    IF Index(str, ".") = 0 THEN <<str>>
    ELSE <<SubSeq(str, 1, Index(str, ".") - 1)>>
             \o SplitDots(SubSeq(str, Index(str, ".") + 1, Len(str)))

IndexDockerIo == <<"index", ".", "docker", ".", "io">>
DockerIo == <<"docker", ".", "io">>
DockerHubServerAddress == <<"https://index.docker.io/v1/">>
DkrEcr == <<".", "dkr", ".", "ecr", ".">>
AmazonawsCom == <<"amazonaws", ".", "com">>

registryHostFromImage(imageRef) ==
    LET ref == TrimSpaceStr(imageRef)
        first == IF Index(ref, "/") > 0 THEN SubSeq(ref, 1, Index(ref, "/") - 1) ELSE ref
    IN IF ref = <<>> THEN <<>>
       ELSE IF ContainsWord(first, ".") \/ ContainsWord(first, ":") THEN first
       ELSE IndexDockerIo

isECRImage(imageRef) == HasSubSeq(imageRef, DkrEcr) \/ HasSubSeq(imageRef, AmazonawsCom)

ecrRegistryFromImage(imageRef, env) ==
    IF env.ADDE_ECR_REGISTRY # <<>> THEN TrimSpaceStr(env.ADDE_ECR_REGISTRY)
    ELSE IF Index(imageRef, "/") > 0
    THEN TrimSpaceStr(SubSeq(imageRef, 1, Index(imageRef, "/") - 1))
    ELSE <<>>

\* the region the loop over strings.Split(reg, ".") finds: the part after the
\* first part "ecr" that has two parts after it
RegionOf(reg) ==
    LET parts == SplitDots(reg)
        at == {i \in DOMAIN parts : parts[i] = <<"ecr">> /\ i + 2 <= Len(parts)}
    IN IF at = {} THEN <<>>
       ELSE parts[(CHOOSE i \in at : \A j \in at : i <= j) + 1]

\* getECRToken: aws is the outcome of the command, should it be run
getECRToken(region, env, aws) ==
    IF env.ADDE_ECR_TOKEN # <<>>
    THEN [token |-> TrimSpaceStr(env.ADDE_ECR_TOKEN), err |-> ""]
    ELSE IF region = <<>> /\ env.AWS_REGION = <<>> THEN [token |-> <<>>, err |-> ""]
    ELSE IF aws.err # "" THEN [token |-> <<>>, err |-> aws.err]
    ELSE [token |-> TrimSpaceStr(aws.out), err |-> ""]

\* RegistryAuthForImage: the auth string and the error for a reference under
\* an environment
RegistryAuthForImage(imageRef, env, aws) ==
    LET ref == TrimSpaceStr(imageRef)
        host == registryHostFromImage(ref)
    IN IF ref = <<>> THEN [auth |-> NoAuth, err |-> ""]
       ELSE IF isECRImage(ref)
       THEN LET reg == ecrRegistryFromImage(ref, env)
                region == IF env.AWS_REGION = <<>> /\ HasSubSeq(reg, DkrEcr)
                          THEN RegionOf(reg) ELSE env.AWS_REGION
                t == getECRToken(region, env, aws)
            IN IF reg = <<>> THEN [auth |-> NoAuth, err |-> ""]
               ELSE IF t.err # "" \/ t.token = <<>> THEN [auth |-> NoAuth, err |-> t.err]
               ELSE [auth |-> encodeAuth(<<"AWS">>, t.token, reg), err |-> ""]
       ELSE IF host = IndexDockerIo \/ host = DockerIo
       THEN IF env.ADDE_DOCKERHUB_USERNAME = <<>> \/ env.ADDE_DOCKERHUB_PASSWORD = <<>>
            THEN [auth |-> NoAuth, err |-> ""]
            ELSE [auth |-> encodeAuth(env.ADDE_DOCKERHUB_USERNAME,
                                      env.ADDE_DOCKERHUB_PASSWORD,
                                      DockerHubServerAddress),
                  err |-> ""]
       ELSE LET https == <<"https", ":", "/", "/">>
                http == <<"http", ":", "/", "/">>
                regURL == TrimPrefix(TrimPrefix(TrimSpaceStr(env.ADDE_REGISTRY_URL), https),
                                     http)
                hostNorm == TrimPrefix(TrimPrefix(host, https), http)
            IN IF regURL = <<>> \/ hostNorm # regURL
                   \/ env.ADDE_REGISTRY_USERNAME = <<>> \/ env.ADDE_REGISTRY_PASSWORD = <<>>
               THEN [auth |-> NoAuth, err |-> ""]
               ELSE [auth |-> encodeAuth(env.ADDE_REGISTRY_USERNAME,
                                         env.ADDE_REGISTRY_PASSWORD, host),
                     err |-> ""]

\* the error PullImage reports for an error of the auth lookup
RegistryAuthError(err) ==
    IF err = "exit status 1" THEN "registry auth: exit status 1" ELSE ""

\* the daemon has pulled ref: the store holds an image with that tag
Pulled(store, ref) ==
    LET ids == ImageIDs(store) \cup StoredIDs
        id == 1 + CHOOSE m \in ids : \A k \in ids : k <= m
    IN IF \E im \in store : \E i \in DOMAIN im.tags : im.tags[i] = ref THEN store
       ELSE store \cup {Image(id, <<ref>>, 2 * 1024 * 1024, 5)}

\* PullImage up to the image-pull call: the reference is trimmed and refused
\* when empty, the auth is resolved
PullBegin(imageRefs) ==
    \E image \in imageRefs, aws \in AwsOutcomes :
        LET ref == TrimSpaceStr(image)
            a == RegistryAuthForImage(ref, environ, aws)
        IN  /\ Cardinality(BuiltImages(images)) < MaxPulls
            /\ Begin("pull_image", [NoParams EXCEPT !.image = image])
            /\ IF ref = <<>>
               THEN Return(ErrorResult("image name is required"))
               ELSE IF a.err # ""
               THEN Return(ErrorResult(RegistryAuthError(a.err)))
               ELSE /\ loc' = [NoLoc EXCEPT !.ref = ref, !.auth = a.auth]
                    /\ pc' = "image_pull"
                    /\ result' = NoResult
            /\ UNCHANGED <<containers, files, nCreates, lastReturned, lastPersisted, aux,
                           images, hostfs>>

StartPull == PullBegin(PullRefs)

\* pull_image of an image of Docker Hub, or of none
StartPullPy == PullBegin({<<>>, <<" ", "\t">>, <<" ", "p", "y", ":", "3", "\n">>})

\* cli.ImagePull, then io.Copy of the progress stream to io.Discard, whose
\* error is dropped: drained tells whether the stream was read to its end
ImagePullCall ==
    /\ pc = "image_pull"
    /\ \E ok \in Outcomes(ctxDone, TRUE), drained \in BOOLEAN :
        /\ calls' = Append(calls, [NoCall EXCEPT !.op = "image-pull", !.ref = loc.ref,
                                                 !.registryAuth = loc.auth, !.ok = ok,
                                                 !.drained = ok /\ drained])
        /\ images' = IF ok /\ drained THEN Pulled(images, loc.ref) ELSE images
        /\ Return(IF ok THEN [NoResult EXCEPT !.ok = TRUE] ELSE ErrorResult(ErrOf(ctxDone)))
    /\ UNCHANGED <<containers, files, exec, nCreates, op, p, ctxDone, runCtxDone,
                   lastReturned, lastPersisted, aux, hist, hostfs, cli, environ, peer>>

(***************************************************************************)
(* prepare_build_context.  A path is a sequence of components, a component *)
(* a sequence of tokens; the files parameter is the set of its keys.       *)
(***************************************************************************)
Dot == <<".">>
DotDot == <<".", ".">>
DockerfileName == <<"Dockerfile">>
RequirementsTxt == <<"requirements.txt">>
PackageJson == <<"package.json">>
DockerignorePath == <<<<".dockerignore">>>>

\* filepath.Base of a relative path without a trailing separator
Base(path) == IF path = <<>> THEN Dot ELSE path[Len(path)]

\* filepath.Clean of a relative path: "." components are dropped and a ".."
\* takes the component before it with it, unless that is a ".." or missing;
\* the empty sequence stands for "."
RECURSIVE CleanFrom(_, _)
CleanFrom(path, out) ==
    IF path = <<>> THEN out
    ELSE LET c == Head(path)
         IN IF c = Dot THEN CleanFrom(Tail(path), out)
            ELSE IF c = DotDot /\ out # <<>> /\ out[Len(out)] # DotDot
            THEN CleanFrom(Tail(path), SubSeq(out, 1, Len(out) - 1))
            ELSE CleanFrom(Tail(path), Append(out, c))
Clean(path) == CleanFrom(path, <<>>)

standardTemplateDockerfile(python, node) ==
    IF python THEN "FROM python:3-alpine"
    ELSE IF node THEN "FROM node:20-alpine"
    ELSE "FROM alpine:latest"

\* the directory PrepareBuildContext leaves for the keys fm when every write
\* succeeds: the files written, and the template of the generated Dockerfile.
\* A key counts as a Dockerfile when its base is "Dockerfile" or starts with
\* "Dockerfile."; a key is skipped when its cleaned path is ".." or starts
\* with "../"
StagedDir(fm) ==
    LET IsDockerfileName(base) ==
            base = DockerfileName \/ HasPrefix(base, DockerfileName \o Dot)
        Traverses(path) == path # <<>> /\ path[1] = DotDot
        hasDockerfile == \E name \in fm : IsDockerfileName(Base(name))
        hasRequirementsTxt == \E name \in fm : Base(name) = RequirementsTxt
        hasPackageJson == \E name \in fm : Base(name) = PackageJson
        inject == ~hasDockerfile /\ (hasRequirementsTxt \/ hasPackageJson)
    IN [files |-> {Clean(path) : path \in {q \in fm : ~Traverses(Clean(q))}}
                      \cup (IF DockerignorePath \in fm THEN {} ELSE {DockerignorePath})
                      \cup (IF inject THEN {<<DockerfileName>>} ELSE {}),
        generated |-> IF inject
                      THEN standardTemplateDockerfile(hasRequirementsTxt, hasPackageJson)
                      ELSE ""]

FileMaps ==
    {{},
     {<<DockerfileName>>, <<<<"a">>, Dot, <<"m">>>>},
     {<<RequirementsTxt>>, <<PackageJson>>},
     {<<<<"sub">>, DockerfileName \o Dot \o <<"dev">>>>, <<PackageJson>>},
     {<<DotDot, <<"x">>>>, <<<<"a">>, DotDot, PackageJson>>, DockerignorePath}}

\* PrepareBuildContext: the whole call.  fs tells which step of it the file
\* system refuses; a failure after MkdirTemp removes the directory again
PrepareBuildContext ==
    /\ Len(hostfs.staged) < MaxStaged
    /\ \E fm \in FileMaps, fs \in {"ok", "mkdir", "abs", "write"} :
        /\ Begin("prepare_build_context", [NoParams EXCEPT !.files = fm])
        /\ IF fm = {}
           THEN /\ Return(ErrorResult("files map is required and must not be empty"))
                /\ UNCHANGED hostfs
           ELSE IF fs = "mkdir"
           THEN /\ Return(ErrorResult("failed to create temp dir"))
                /\ UNCHANGED hostfs
           ELSE IF fs = "abs"
           THEN /\ Return(ErrorResult("failed to resolve path"))
                /\ UNCHANGED hostfs
           ELSE IF fs = "write" \/ <<>> \in StagedDir(fm).files
           THEN /\ Return(ErrorResult("failed to write"))
                /\ UNCHANGED hostfs
           ELSE /\ hostfs' = [hostfs EXCEPT !.staged = Append(@, StagedDir(fm))]
                /\ Return([NoResult EXCEPT !.context_id = Len(hostfs.staged) + 1])
        /\ UNCHANGED <<containers, files, nCreates, lastReturned, lastPersisted, aux,
                       images>>

(***************************************************************************)
(* The command line: main parses the payload, calls the operation, writes  *)
(* its result to standard output and exits.                                *)
(***************************************************************************)
\* outJSON: the members of the object written for the result res of tool, as
\* pairs of key and value; a member tagged omitempty is left out when it is
\* empty.  The struct outErr writes has the one member Error and no tag.
outJSON(tool, res) ==
    LET Opt(key, value, zero) == IF value = zero THEN {} ELSE {<<key, value>>}
    IN IF res.Error # "" THEN {<<"Error", res.Error>>}
       ELSE Opt("error", res.error, "") \cup
            CASE tool = "create_runtime_env" ->
                     Opt("container_id", res.container_id, NoCID)
                         \cup Opt("workspace", res.workspace, 0)
              [] tool \in {"execute_code_block", "get_container_logs"} ->
                     IF res.hasLog THEN {<<"log", res.log>>} ELSE {}
              [] tool \in {"cleanup_env", "pull_image"} -> {<<"ok", res.ok>>}
              [] tool = "build_image_from_context" ->
                     Opt("status", res.status, "") \cup Opt("image_id", res.image_id, 0)
                         \cup Opt("tag", res.tag, <<>>) \cup Opt("size_mb", res.size, 0)
                         \cup Opt("build_log_summary", res.build_log_summary, <<>>)
                         \cup Opt("failed_layer", res.failed_layer, <<>>)
              [] tool = "list_agent_images" -> Opt("images", res.images, <<>>)
              [] tool = "prepare_build_context" ->
                     Opt("context_id", res.context_id, 0)
              [] OTHER -> {}

\* the exit code of main after it has written the result res of tool
ExitCode(tool, res) ==
    IF res.Error # "" THEN 1
    ELSE IF tool = "build_image_from_context"
    THEN (IF res.status = "error" \/ res.error # "" THEN 1 ELSE 0)
    ELSE (IF res.error # "" THEN 1 ELSE 0)

\* the payloads: a JSON object, the empty text, text that is no JSON, and a
\* JSON array
Payloads == {"{}", "", "{invalid}", "[]"}

\* the error of json.Unmarshal of the payload into the parameters of a tool,
\* empty when it parses
UnmarshalError(payload) ==
    CASE payload = "" -> "unexpected end of JSON input"
      [] payload = "{invalid}" -> "invalid character 'i' looking for beginning of object key string"
      [] payload = "[]" -> "json: cannot unmarshal array into Go value"
      [] OTHER -> ""

\* the names given as os.Args[1]: the tools main has a case for, the two
\* further operations of the package, and a name of no operation
ToolNames == DispatchedTools \cup {"delete_image", "build_image_from_path", "no_such_tool"}

\* the process ends before main calls an operation: diag is what it wrote to
\* standard error, code the argument of os.Exit; res is what outErr encodes,
\* NoResult when nothing is written to standard output
MainExits(tool, payload, gateway, diag, code, res) ==
    /\ pc \in {"idle", "done"}
    /\ cli' = [run |-> TRUE, tool |-> tool, payload |-> payload, gateway |-> gateway,
               called |-> FALSE, stderr |-> diag, exit |-> code]
    /\ op' = "none"
    /\ p' = NoParams
    /\ ctxDone' = FALSE
    /\ runCtxDone' = FALSE
    /\ calls' = <<>>
    /\ Return(res)
    /\ UNCHANGED <<containers, files, exec, nCreates, lastReturned, lastPersisted, aux,
                   hist, images, hostfs, environ, peer>>

\* len(os.Args) < 2
Usage ==
    MainExits("", "unread", FALSE, <<"usage:", "adde", "<tool>", "[json_payload]">>, 2,
              NoResult)

\* no payload argument, and the scanner of standard input reports an error
StdinFails ==
    \E tool \in ToolNames :
        MainExits(tool, "unread", FALSE, <<"adde:", "read", "stdin:">>, 1, NoResult)

\* client.NewClientWithOpts returns an error: every tool but
\* prepare_build_context ends here, before the switch on its name
ClientFails ==
    \E tool \in ToolNames \ {"prepare_build_context"}, payload \in Payloads :
        MainExits(tool, payload, FALSE, <<"adde:", "docker", "client:">>, 1, NoResult)

\* json.Unmarshal refuses the payload: outErr writes the error and exits, the
\* operation is not called
BadPayload ==
    \E tool \in DispatchedTools, payload \in Payloads :
        /\ UnmarshalError(payload) # ""
        /\ MainExits(tool, payload, tool # "prepare_build_context",
                     <<"adde:", UnmarshalError(payload)>>, 1,
                     [NoResult EXCEPT !.Error = UnmarshalError(payload)])

\* the default case of the switch, reached with the client constructed
UnknownTool ==
    \E tool \in ToolNames \ DispatchedTools, payload \in Payloads :
        MainExits(tool, payload, TRUE, <<"adde:", "unknown", "tool", tool>>, 2, NoResult)

\* what the process has written to standard output when it has exited: the
\* lines outJSON encoded
Stdout ==
    IF pc = "done" /\ (cli.called \/ result.Error # "")
    THEN <<outJSON(cli.tool, result)>>
    ELSE <<>>

\* the exit code of the process
ExitStatus == IF cli.called THEN ExitCode(cli.tool, result) ELSE cli.exit

(***************************************************************************)
(* Specification.                                                          *)
(***************************************************************************)
Next ==
    \/ StartCreate
    \/ ContainerCreateCall
    \/ ContainerStartCall
    \/ InstallReturn
    \/ RemoveAfterFailure
    \/ ExecCreate
    \/ ExecAttach
    \/ ExecStart
    \/ StdCopyFrame
    \/ StdCopyEOF
    \/ StdCopyError
    \/ ExecInspect
    \/ Cancel
    \/ Expire
    \/ StartExecute
    \/ PutSource
    \/ ExecuteReturn
    \/ StartGetLogs
    \/ LogsReturn
    \/ StartCleanup
    \/ StopCall
    \/ RemoveCall

Spec == Init /\ [][Next]_vars

\* the same program, with the record of the containers cleanup_env was tried
\* on while they existed
InitHistory ==
    /\ containers = [c \in CIDs |-> "absent"]
    /\ files = [c \in CIDs |-> EmptyFiles]
    /\ exec = NoExec
    /\ nCreates = 0
    /\ op = "none"
    /\ pc = "idle"
    /\ p = NoParams
    /\ loc = NoLoc
    /\ ctxDone = FALSE
    /\ runCtxDone = FALSE
    /\ calls = <<>>
    /\ result = NoResult
    /\ lastReturned = [c \in CIDs |-> NoLog]
    /\ lastPersisted = [c \in CIDs |-> NoLog]
    /\ aux = NoAux
    /\ hist = [NoHist EXCEPT !.track = TRUE]
    /\ images = NoImages
    /\ hostfs = NoDir
    /\ cli = NoCli
    /\ environ = NoEnv
    /\ peer = NoPeer

SpecHistory == InitHistory /\ [][Next]_vars

\* the steps the running invocation takes by itself: a daemon call is answered
\* (or fails once its context is done), a frame that was written is copied, the
\* stream of a process that has exited reaches EOF, a function returns.  Left
\* out are the caller starting a tool, the contexts ending, and a broken
\* connection (StdCopyError), none of which has to happen.
ProgramStep ==
    \/ ContainerCreateCall
    \/ ContainerStartCall
    \/ InstallReturn
    \/ RemoveAfterFailure
    \/ ExecCreate
    \/ ExecAttach
    \/ ExecStart
    \/ StdCopyFrame
    \/ StdCopyEOF
    \/ ExecInspect
    \/ PutSource
    \/ ExecuteReturn
    \/ LogsReturn
    \/ StopCall
    \/ RemoveCall

\* the invocation is never suspended for ever at a step it can take
SpecLive == Spec /\ WF_vars(ProgramStep)

(***************************************************************************)
(* Two execute_code_block invocations, one after the other, on a running   *)
(* container; aux keeps the parameters, the daemon calls and the result    *)
(* of the first while the second runs.                                     *)
(***************************************************************************)
InitRunning ==
    /\ containers = [c \in CIDs |-> IF c = 1 THEN "running" ELSE "absent"]
    /\ files = [c \in CIDs |-> EmptyFiles]
    /\ exec = NoExec
    /\ nCreates = 1
    /\ op = "none"
    /\ pc = "idle"
    /\ p = NoParams
    /\ loc = NoLoc
    /\ ctxDone = FALSE
    /\ runCtxDone = FALSE
    /\ calls = <<>>
    /\ result = NoResult
    /\ lastReturned = [c \in CIDs |-> NoLog]
    /\ lastPersisted = [c \in CIDs |-> NoLog]
    /\ aux = NoAux
    /\ hist = NoHist
    /\ images = NoImages
    /\ hostfs = NoDir
    /\ cli = NoCli
    /\ environ = NoEnv
    /\ peer = NoPeer

StartFirstRun ==
    \E c \in CIDs, filename \in Filenames, code \in CodeContents, t \in TimeoutInputs :
        /\ aux.run = 0
        /\ ExecuteBegin(c, filename, code, t)
        /\ aux' = [aux EXCEPT !.run = 1, !.lastRun = files[c][lastRunPath]]
        /\ UNCHANGED <<images, hostfs>>

StartSecondRun ==
    \E c \in CIDs, filename \in Filenames, code \in CodeContents, t \in TimeoutInputs :
        /\ aux.run = 1
        /\ ExecuteBegin(c, filename, code, t)
        /\ aux' = [run |-> 2, p |-> p, calls |-> calls, result |-> result,
                   lastRun |-> files[c][lastRunPath]]
        /\ UNCHANGED <<images, hostfs>>

NextTwoRuns ==
    \/ StartFirstRun
    \/ StartSecondRun
    \/ PutSource
    \/ ExecCreate
    \/ ExecAttach
    \/ ExecStart
    \/ StdCopyFrame
    \/ StdCopyEOF
    \/ StdCopyError
    \/ ExecInspect
    \/ ExecuteReturn
    \/ Cancel
    \/ Expire

SpecTwoRuns == InitRunning /\ [][NextTwoRuns]_vars

(***************************************************************************)
(* The image operations against a daemon that holds some images, and a     *)
(* build context directory in some state.                                  *)
(***************************************************************************)
InitImages ==
    /\ containers = [c \in CIDs |-> "absent"]
    /\ files = [c \in CIDs |-> EmptyFiles]
    /\ exec = NoExec
    /\ nCreates = 0
    /\ op = "none"
    /\ pc = "idle"
    /\ p = NoParams
    /\ loc = NoLoc
    /\ ctxDone = FALSE
    /\ runCtxDone = FALSE
    /\ calls = <<>>
    /\ result = NoResult
    /\ lastReturned = [c \in CIDs |-> NoLog]
    /\ lastPersisted = [c \in CIDs |-> NoLog]
    /\ aux = NoAux
    /\ hist = NoHist
    /\ images \in ImageStores
    /\ hostfs \in ContextDirs
    /\ cli = NoCli
    /\ environ = NoEnv
    /\ peer = NoPeer

NextImages ==
    \/ StartBuild
    \/ ImageBuildCall
    \/ ImageInspectCall
    \/ StartList
    \/ ImageListCall
    \/ StartDelete
    \/ ImageRemoveCall
    \/ BadPayload
    \/ Cancel
    \/ Expire

SpecImages == InitImages /\ [][NextImages]_vars

(***************************************************************************)
(* get_container_logs with every tail_lines, on a running container whose  *)
(* .adde_last_run.json holds a log of up to three characters per stream.   *)
(***************************************************************************)
TailTexts ==
    {<<>>} \cup UNION {[1 .. n -> {"a", "\n"}] : n \in 1 .. 3}

PersistedLogs ==
    {LogEntry(3, Raw(out), Raw(err), formatDuration(4)) :
         out \in TailTexts, err \in {<<>>, <<"E", "\n", "F", "\n">>}}

TailLineInputs == -1 .. 3

InitTail ==
    /\ \E log \in PersistedLogs :
        /\ files = [c \in CIDs |->
                        IF c = 1 THEN [EmptyFiles EXCEPT ![lastRunPath] = Marshal(log)]
                        ELSE EmptyFiles]
        /\ lastReturned = [c \in CIDs |-> IF c = 1 THEN log ELSE NoLog]
        /\ lastPersisted = [c \in CIDs |-> IF c = 1 THEN log ELSE NoLog]
    /\ containers = [c \in CIDs |-> IF c = 1 THEN "running" ELSE "absent"]
    /\ exec = NoExec
    /\ nCreates = 1
    /\ op = "none"
    /\ pc = "idle"
    /\ p = NoParams
    /\ loc = NoLoc
    /\ ctxDone = FALSE
    /\ runCtxDone = FALSE
    /\ calls = <<>>
    /\ result = NoResult
    /\ aux = NoAux
    /\ hist = NoHist
    /\ images = NoImages
    /\ hostfs = NoDir
    /\ cli = NoCli
    /\ environ = NoEnv
    /\ peer = NoPeer

StartTail == GetLogsBegin(TailLineInputs)

NextTail ==
    \/ StartTail
    \/ ExecCreate
    \/ ExecAttach
    \/ ExecStart
    \/ StdCopyFrame
    \/ StdCopyEOF
    \/ StdCopyError
    \/ ExecInspect
    \/ LogsReturn
    \/ Cancel
    \/ Expire

SpecTail == InitTail /\ [][NextTail]_vars

(***************************************************************************)
(* execute_code_block on a running container, with file names in the       *)
(* workspace directory and below it.                                       *)
(***************************************************************************)
StartExecuteNested ==
    \E c \in CIDs, filename \in Filenames \cup NestedFilenames, code \in CodeContents :
        /\ ExecuteBegin(c, filename, code, 0)
        /\ UNCHANGED <<aux, images, hostfs>>

NextNested ==
    \/ StartExecuteNested
    \/ PutSource
    \/ ExecCreate
    \/ ExecAttach
    \/ ExecStart
    \/ StdCopyFrame
    \/ StdCopyEOF
    \/ StdCopyError
    \/ ExecInspect
    \/ ExecuteReturn
    \/ Cancel
    \/ Expire

SpecNested == InitRunning /\ [][NextNested]_vars

(***************************************************************************)
(* Two adde processes invoke execute_code_block against one daemon at the  *)
(* same time.  Each has its own parameters, locals, contexts and exec      *)
(* instance; the containers and their files are the daemon's.  The process *)
(* that takes the next step is the one in op, pc, p, loc; the other one    *)
(* waits in peer.                                                          *)
(***************************************************************************)
RaceCodes == {<<"print(42)">>, <<"fail">>}

\* a process begins its one invocation
StartExecuteRace ==
    \E c \in {1}, filename \in Filenames, code \in RaceCodes :
        /\ pc = "idle"
        /\ ExecuteBegin(c, filename, code, 0)
        /\ UNCHANGED <<aux, images, hostfs>>

\* the scheduler gives the turn to the other process
Switch ==
    /\ peer' = [op |-> op, pc |-> pc, p |-> p, loc |-> loc, ctxDone |-> ctxDone,
                runCtxDone |-> runCtxDone, calls |-> calls, result |-> result,
                exec |-> exec,
                interleaved |-> peer.interleaved \/ pc \notin {"idle", "done"}]
    /\ op' = peer.op
    /\ pc' = peer.pc
    /\ p' = peer.p
    /\ loc' = peer.loc
    /\ ctxDone' = peer.ctxDone
    /\ runCtxDone' = peer.runCtxDone
    /\ calls' = peer.calls
    /\ result' = peer.result
    /\ exec' = peer.exec
    /\ UNCHANGED <<containers, files, nCreates, lastReturned, lastPersisted>>
    /\ UNCHANGED <<aux, hist, images, hostfs, cli, environ>>

NextRace ==
    \/ StartExecuteRace
    \/ Switch
    \/ PutSource
    \/ ExecCreate
    \/ ExecAttach
    \/ ExecStart
    \/ StdCopyFrame
    \/ StdCopyEOF
    \/ StdCopyError
    \/ ExecInspect
    \/ ExecuteReturn
    \/ Cancel

SpecRace == InitRunning /\ [][NextRace]_vars


(***************************************************************************)
(* execute_code_block, get_container_logs with every tail_lines and        *)
(* cleanup_env on a running container.                                     *)
(***************************************************************************)
NextLogs ==
    \/ StartExecute
    \/ PutSource
    \/ ExecCreate
    \/ ExecAttach
    \/ ExecStart
    \/ StdCopyFrame
    \/ StdCopyEOF
    \/ StdCopyError
    \/ ExecInspect
    \/ ExecuteReturn
    \/ StartTail
    \/ LogsReturn
    \/ StartCleanup
    \/ StopCall
    \/ RemoveCall
    \/ Cancel
    \/ Expire

SpecLogs == InitRunning /\ [][NextLogs]_vars

(***************************************************************************)
(* Every operation of the package, with one input for create_runtime_env   *)
(* and execute_code_block, against a daemon that holds images and a        *)
(* context directory with a Dockerfile.                                    *)
(***************************************************************************)
InitResults ==
    /\ containers = [c \in CIDs |-> "absent"]
    /\ files = [c \in CIDs |-> EmptyFiles]
    /\ exec = NoExec
    /\ nCreates = 0
    /\ op = "none"
    /\ pc = "idle"
    /\ p = NoParams
    /\ loc = NoLoc
    /\ ctxDone = FALSE
    /\ runCtxDone = FALSE
    /\ calls = <<>>
    /\ result = NoResult
    /\ lastReturned = [c \in CIDs |-> NoLog]
    /\ lastPersisted = [c \in CIDs |-> NoLog]
    /\ aux = NoAux
    /\ hist = NoHist
    /\ images \in ImageStores \ {NoImages}
    /\ hostfs = [NoDir EXCEPT !.isDir = TRUE, !.walkOK = TRUE,
                              !.dockerfile = Raw(<<"F", "R", "O", "M", " ", "a">>)]
    /\ cli = NoCli
    /\ environ = NoEnv
    /\ peer = NoPeer

StartCreatePython ==
    CreateBegin({<<"python", ":", "3.11-slim">>}, {<<<<"requests">>>>}, {{}}, {FALSE},
                {{}}, {FALSE})

StartExecuteFail ==
    \E c \in CIDs :
        /\ ExecuteBegin(c, <<"t", ".", "PY">>, <<"fail">>, 0)
        /\ UNCHANGED <<aux, images, hostfs>>

NextResults ==
    \/ StartCreatePython
    \/ ContainerCreateCall
    \/ ContainerStartCall
    \/ InstallReturn
    \/ RemoveAfterFailure
    \/ ExecCreate
    \/ ExecAttach
    \/ ExecStart
    \/ StdCopyFrame
    \/ StdCopyEOF
    \/ StdCopyError
    \/ ExecInspect
    \/ Cancel
    \/ Expire
    \/ StartExecuteFail
    \/ PutSource
    \/ ExecuteReturn
    \/ StartGetLogs
    \/ LogsReturn
    \/ StartCleanup
    \/ StopCall
    \/ RemoveCall
    \/ StartPullPy
    \/ ImagePullCall
    \/ StartBuild
    \/ ImageBuildCall
    \/ ImageInspectCall
    \/ StartDelete
    \/ ImageRemoveCall

SpecResults == InitResults /\ [][NextResults]_vars

(***************************************************************************)
(* pull_image under every environment of Environments.                     *)
(***************************************************************************)
InitPull ==
    /\ containers = [c \in CIDs |-> "absent"]
    /\ files = [c \in CIDs |-> EmptyFiles]
    /\ exec = NoExec
    /\ nCreates = 0
    /\ op = "none"
    /\ pc = "idle"
    /\ p = NoParams
    /\ loc = NoLoc
    /\ ctxDone = FALSE
    /\ runCtxDone = FALSE
    /\ calls = <<>>
    /\ result = NoResult
    /\ lastReturned = [c \in CIDs |-> NoLog]
    /\ lastPersisted = [c \in CIDs |-> NoLog]
    /\ aux = NoAux
    /\ hist = NoHist
    /\ images = NoImages
    /\ hostfs = NoDir
    /\ cli = NoCli
    /\ environ \in Environments
    /\ peer = NoPeer

NextPull ==
    \/ StartPull
    \/ ImagePullCall
    \/ Cancel

SpecPull == InitPull /\ [][NextPull]_vars

(***************************************************************************)
(* create_runtime_env with port_bindings maps of entries it binds and of   *)
(* entries it drops, followed by the operations on the environment it made.*)
(***************************************************************************)
StartCreatePorts ==
    CreateBegin({<<"python", ":", "3.11-slim">>}, DependencyLists, {{}},
                {TRUE}, PortBindingInputs, {FALSE})

NextPorts ==
    \/ StartCreatePorts
    \/ ContainerCreateCall
    \/ ContainerStartCall
    \/ InstallReturn
    \/ RemoveAfterFailure
    \/ ExecCreate
    \/ ExecAttach
    \/ ExecStart
    \/ StdCopyFrame
    \/ StdCopyEOF
    \/ StdCopyError
    \/ ExecInspect
    \/ Cancel
    \/ Expire
    \/ StartCleanup
    \/ StopCall
    \/ RemoveCall

SpecPorts == Init /\ [][NextPorts]_vars

(***************************************************************************)
(* The adde process: every way main ends, with and without its operation.  *)
(***************************************************************************)
InitCli ==
    /\ containers = [c \in CIDs |-> "absent"]
    /\ files = [c \in CIDs |-> EmptyFiles]
    /\ exec = NoExec
    /\ nCreates = 0
    /\ op = "none"
    /\ pc = "idle"
    /\ p = NoParams
    /\ loc = NoLoc
    /\ ctxDone = FALSE
    /\ runCtxDone = FALSE
    /\ calls = <<>>
    /\ result = NoResult
    /\ lastReturned = [c \in CIDs |-> NoLog]
    /\ lastPersisted = [c \in CIDs |-> NoLog]
    /\ aux = NoAux
    /\ hist = NoHist
    /\ images \in ImageStores
    /\ hostfs = NoDir
    /\ cli = NoCli
    /\ environ = NoEnv
    /\ peer = NoPeer

NextCli ==
    \/ Usage
    \/ StdinFails
    \/ ClientFails
    \/ BadPayload
    \/ UnknownTool
    \/ PrepareBuildContext
    \/ StartPullPy
    \/ ImagePullCall
    \/ StartList
    \/ ImageListCall
    \/ StartDelete
    \/ ImageRemoveCall
    \/ Cancel

SpecCli == InitCli /\ [][NextCli]_vars


(***************************************************************************)
(* Properties.                                                             *)
(***************************************************************************)
IsCreateCall(i) == i \in DOMAIN calls /\ calls[i].op = "container-create"

\* C1: every container-create request of create_runtime_env has network mode
\* "none" unless the network parameter is true, and then "default"; no other
\* parameter has a say.
C1_NetworkNoneUnlessGranted ==
    \A i \in DOMAIN calls :
        IsCreateCall(i) =>
            /\ p.network => calls[i].networkMode = "default"
            /\ ~p.network => calls[i].networkMode = "none"

\* a create request without network although every other parameter is set
C1_Witness ==
    \E i \in DOMAIN calls :
        /\ IsCreateCall(i)
        /\ calls[i].ok
        /\ ~p.network
        /\ calls[i].networkMode = "none"
        /\ Len(p.dependencies) > 0
        /\ p.use_image_cmd
        /\ p.port_bindings # {}
        /\ p.env_vars # {}

\* C2: every container-create request carries the 512 MiB memory cap, the
\* 500000000 nano-CPU cap, auto_remove = false and a bind of the workspace
\* directory made by this call onto /workspace; a successful call returns
\* that directory as workspace.
C2_CapsAndWorkspaceMount ==
    /\ \A i \in DOMAIN calls :
           IsCreateCall(i) =>
               /\ calls[i].memory = 536870912
               /\ calls[i].nanoCPUs = 500000000
               /\ calls[i].autoRemove = FALSE
               /\ calls[i].bindSrc = nCreates
               /\ calls[i].bindDst = "/workspace"
    /\ (op = "create_runtime_env" /\ pc = "done" /\ result.error = "") =>
           \E i \in DOMAIN calls :
               /\ IsCreateCall(i)
               /\ calls[i].ok
               /\ result.workspace = calls[i].bindSrc
               /\ result.workspace = nCreates

\* a successful create_runtime_env that runs the image's command with network
\* and port bindings
C2_Witness ==
    /\ op = "create_runtime_env"
    /\ pc = "done"
    /\ result.error = ""
    /\ result.container_id # NoCID
    /\ p.use_image_cmd
    /\ p.network
    /\ p.port_bindings # {}
    /\ \E i \in DOMAIN calls : IsCreateCall(i) /\ calls[i].ok


\* the arguments of a daemon call without the tar stream it uploads and
\* without its outcome
NonPayload(call) == [call EXCEPT !.payload = NoFile, !.tarSize = 0, !.ok = TRUE]

SameTarget(a, b) ==
    /\ a.container_id = b.container_id
    /\ a.filename = b.filename
    /\ a.timeout_sec = b.timeout_sec

Shorter(a, b) == IF Len(a) <= Len(b) THEN Len(a) ELSE Len(b)

\* C3: two execute_code_block invocations that agree on container_id, filename
\* and timeout_sec and differ in code_content issue daemon calls with the same
\* arguments, the tar stream apart; no command argument holds the code.
C3_CodeOnlyInTarPayload ==
    /\ (aux.run = 2 /\ SameTarget(aux.p, p) /\ aux.p.code_content # p.code_content) =>
           \A i \in 1 .. Shorter(aux.calls, calls) :
               NonPayload(aux.calls[i]) = NonPayload(calls[i])
    /\ \A i \in DOMAIN calls :
           \A k \in DOMAIN calls[i].cmd : ~HasSubSeq(calls[i].cmd[k], p.code_content)

\* both invocations have created their exec and uploaded different code
C3_Witness ==
    /\ aux.run = 2
    /\ SameTarget(aux.p, p)
    /\ aux.p.code_content # p.code_content
    /\ Len(aux.calls) >= 2
    /\ Len(calls) >= 2
    /\ aux.calls[1].payload # calls[1].payload
    /\ aux.calls[2].op = "exec-create"
    /\ calls[2].op = "exec-create"
    /\ calls[2].ok


ExecuteDone == op = "execute_code_block" /\ pc = "done"
LogsDone == op = "get_container_logs" /\ pc = "done"

\* the file .adde_last_run.json of the container the invocation works on
LastRunFile == files[p.container_id][lastRunPath]

\* the last daemon call of the invocation uploaded .adde_last_run.json
LogUploaded ==
    /\ Len(calls) > 0
    /\ calls[Len(calls)].op = "put-archive"
    /\ calls[Len(calls)].tarName = lastRunPath
    /\ calls[Len(calls)].ok

\* the file parses to an entry with the exit code of the returned log
FileHasReturnedExitCode ==
    /\ LastRunFile.kind = "json"
    /\ LastRunFile.doc.exit_code = ToString(result.log.ExitCode)
    /\ Unmarshal(LastRunFile).ok
    /\ Unmarshal(LastRunFile).log.ExitCode = result.log.ExitCode

\* C4 as stated: after every execute_code_block that returns a log the file
\* .adde_last_run.json parses to an entry with the returned exit code, whatever
\* the outcome of the daemon calls.
C4_Original == (ExecuteDone /\ result.hasLog) => FileHasReturnedExitCode

\* C4: after an execute_code_block that returns a log and whose upload of
\* .adde_last_run.json succeeded, the file parses to an entry with the exit
\* code of the returned log.
C4_ExitCodePersisted ==
    (ExecuteDone /\ result.hasLog /\ LogUploaded) => FileHasReturnedExitCode

\* a run with a non-zero exit code whose log was uploaded over an earlier log
C4_Witness ==
    /\ ExecuteDone
    /\ result.hasLog
    /\ LogUploaded
    /\ result.log.ExitCode = 3
    /\ lastPersisted[p.container_id] = result.log
    /\ LastRunFile.doc.exit_code = "3"

\* invalid UTF-8 bytes replaced by U+FFFD, every other byte kept
Sanitized(t) ==
    Raw([i \in 1 .. Len(t.bytes) |->
            IF t.bytes[i] = BadByte THEN ReplacementChar ELSE t.bytes[i]])

SanitizedLog(log) ==
    [log EXCEPT !.Stdout = Sanitized(log.Stdout), !.Stderr = Sanitized(log.Stderr)]

\* every daemon call of the invocation succeeded
AllCallsOK == \A i \in DOMAIN calls : calls[i].ok

CreateDone == op = "create_runtime_env" /\ pc = "done"

\* the daemon created the container of this invocation
ContainerWasCreated == \E i \in DOMAIN calls : IsCreateCall(i) /\ calls[i].ok

\* C6, for the cancelled or timed-out invocation the claim names: whenever
\* create_runtime_env returns the error of a done context after the daemon has
\* created the container, the container no longer exists when it returns.
C6_RemovedOnError ==
    (CreateDone /\ ContainerWasCreated /\ result.error = ErrOf(TRUE)) =>
        containers[nCreates] = "absent"

\* the daemon calls of the exec runner
RunnerOps == {"exec-create", "exec-attach", "exec-start", "stream-read", "exec-inspect"}

IsRunnerCall(c) == c.op \in RunnerOps

RunnerCalls == SelectSeq(calls, IsRunnerCall)

\* the exec of this invocation ran to its end and its exit code was read
ExitCodeRead == \E i \in DOMAIN calls : calls[i].op = "exec-inspect" /\ calls[i].ok

\* C7, for the install command that finishes with a non-zero exit code while
\* every daemon call succeeds: create_runtime_env returns an error and no
\* container_id, and the container has been removed.
C7_InstallFailureAborts ==
    (CreateDone /\ Len(p.dependencies) > 0 /\ AllCallsOK /\ ExitCodeRead
        /\ exec.exitCode # 0) =>
            /\ result.error # ""
            /\ result.container_id = NoCID
            /\ containers[nCreates] = "absent"

\* C8: the daemon operations of a run of the exec runner are a prefix of
\* exec-create, exec-attach, exec-start, read to EOF, exec-inspect in that
\* order; every one but the last issued has succeeded, so exec-start follows
\* a successful exec-attach and nothing follows a failure; exec-inspect is
\* issued with the stream read to its end.
C8_FixedOrder ==
    LET r == RunnerCalls
        order == <<"exec-create", "exec-attach", "exec-start", "stream-read",
                   "exec-inspect">>
    IN /\ Len(r) <= Len(order)
       /\ \A i \in DOMAIN r :
              /\ r[i].op = order[i]
              /\ i < Len(r) => r[i].ok
       /\ pc = "exec_inspect" => exec.todo = <<>> /\ exec.state = "exited"

\* a run of the exec runner whose five operations all succeeded and which
\* collected output on both streams
C8_Witness ==
    /\ Len(RunnerCalls) = 5
    /\ \A i \in DOMAIN RunnerCalls : RunnerCalls[i].ok
    /\ loc.rx.stdout # EmptyText
    /\ loc.rx.stderr # EmptyText

\* C9: in an execute_code_block run the first daemon call is the put-archive
\* of the source file, and exec-create is issued right after it has succeeded
\* (when it fails no further call is made); any later put-archive is that of
\* .adde_last_run.json and directly follows a successful exec-inspect.
C9_UploadExecPersistOrder ==
    op = "execute_code_block" =>
        /\ Len(calls) > 0 =>
               /\ calls[1].op = "put-archive"
               /\ calls[1].tarName = p.filename
               /\ calls[1].payload = Raw(p.code_content)
               /\ ~calls[1].ok => Len(calls) = 1
        /\ \A i \in DOMAIN calls :
               /\ calls[i].op = "exec-create" => i = 2 /\ calls[1].ok
               /\ (calls[i].op = "put-archive" /\ i > 1) =>
                      /\ calls[i].tarName = lastRunPath
                      /\ calls[i - 1].op = "exec-inspect"
                      /\ calls[i - 1].ok
                      /\ i = Len(calls)

\* a run that uploaded the source, ran it and uploaded the log, seven daemon
\* calls in all
C9_Witness ==
    /\ ExecuteDone
    /\ Len(calls) = 7
    /\ calls[1].op = "put-archive" /\ calls[1].ok
    /\ calls[2].op = "exec-create"
    /\ calls[6].op = "exec-inspect"
    /\ calls[7].op = "put-archive" /\ calls[7].tarName = lastRunPath

\* the exec runner has returned to its caller with loc.rx
RunnerReturned == pc \in {"execute_ret", "logs_ret", "install_ret"}

\* the read of the attached stream reached EOF
StreamReadToEOF == \E i \in DOMAIN calls : calls[i].op = "stream-read" /\ calls[i].ok

\* C10 as stated: when the timeout expires before exec-inspect has returned,
\* the exec runner returns an error with empty stdout and empty stderr, and
\* execute_code_block returns an error and no log.
C10_Original ==
    /\ (RunnerReturned /\ runCtxDone /\ ~ctxDone) =>
           /\ loc.rx.err # ""
           /\ loc.rx.stdout = EmptyText
           /\ loc.rx.stderr = EmptyText
    /\ (ExecuteDone /\ runCtxDone /\ ~ctxDone) => result.error # "" /\ ~result.hasLog

\* C10: when the timeout expires before exec-inspect has returned, the exec
\* runner returns an error and exit code -1; stdout and stderr are empty
\* unless the stream had been read to EOF, and then they are the output
\* collected; execute_code_block returns an error and no log either way.
C10_TimeoutSurfacesError ==
    /\ (RunnerReturned /\ runCtxDone) =>
           /\ loc.rx.err # ""
           /\ loc.rx.exitCode = -1
           /\ ~StreamReadToEOF =>
                  /\ loc.rx.stdout = EmptyText
                  /\ loc.rx.stderr = EmptyText
                  /\ loc.rx.dur = 0
           /\ StreamReadToEOF =>
                  /\ loc.rx.stdout = loc.outBuf
                  /\ loc.rx.stderr = loc.errBuf
                  /\ loc.rx.dur = loc.dur
    /\ (ExecuteDone /\ runCtxDone) => result.error # "" /\ ~result.hasLog

\* the timeout alone expired after the output was read, and the runner
\* returned the error of exec-inspect with that output
C10_Witness ==
    /\ pc = "execute_ret"
    /\ runCtxDone
    /\ ~ctxDone
    /\ StreamReadToEOF
    /\ loc.rx.err # ""
    /\ loc.rx.stdout # EmptyText

\* the invocation is inside the exec runner
RunnerRunning == \E k \in 1 .. Len(RunExecOrder) : pc = RunExecOrder[k]

\* C11: once the timeout of the exec runner has expired the runner eventually
\* returns to its caller, also when the command never exits and the attached
\* stream never reaches EOF.
C11_ReturnsAfterTimeout == (RunnerRunning /\ runCtxDone) ~> ~RunnerRunning

CleanupDone == op = "cleanup_env" /\ pc = "done"

\* C12: cleanup_env issues container-stop and then, whatever stop answered, a
\* forced container-remove of the same container; it returns ok = true with
\* no error exactly when the remove succeeded and ok = false with a non-empty
\* error when it failed.
C12_RemoveDecidesCleanup ==
    op = "cleanup_env" =>
        /\ Len(calls) <= 2
        /\ Len(calls) >= 1 =>
               calls[1].op = "container-stop" /\ calls[1].cid = p.container_id
        /\ Len(calls) = 2 =>
               /\ calls[2].op = "container-remove"
               /\ calls[2].cid = p.container_id
               /\ calls[2].force
        /\ pc = "done" =>
               /\ Len(calls) = 2
               /\ result.ok <=> calls[2].ok
               /\ result.ok => result.error = ""
               /\ ~result.ok => result.error # ""

\* stop failed, remove succeeded, and the call returned ok = true
C12_Witness ==
    /\ CleanupDone
    /\ Len(calls) = 2
    /\ ~calls[1].ok
    /\ calls[2].ok
    /\ result.ok
    /\ result.error = ""
    /\ containers[p.container_id] = "absent"

\* the operations that take the id of a container
OnContainer == op \in {"cleanup_env", "execute_code_block", "get_container_logs"}

\* C13 as stated: the first cleanup_env of a container that exists returns
\* ok = true and leaves it absent; every later cleanup_env of that id returns
\* ok = false with an error and changes nothing; every execute_code_block or
\* get_container_logs after a cleanup_env of that id returns an error.
C13_Original ==
    /\ (CleanupDone /\ hist.first /\ hist.existed) =>
           result.ok /\ containers[p.container_id] = "absent"
    /\ (CleanupDone /\ ~hist.first) =>
           /\ ~result.ok
           /\ result.error # ""
           /\ hist.existed <=> containers[p.container_id] # "absent"
    /\ (pc = "done" /\ op \in {"execute_code_block", "get_container_logs"}
           /\ p.container_id \in hist.tried) => result.error # ""

\* C13: a cleanup_env of a container that exists returns ok = true and leaves
\* the container absent when its container-remove succeeds; from then on the
\* container stays absent, and every cleanup_env, execute_code_block or
\* get_container_logs begun on that id (on any id whose container is absent)
\* returns a non-empty error, neither ok nor a log, and no daemon call of it
\* succeeds.
C13_CleanupOnce ==
    /\ \A c \in hist.cleaned : containers[c] = "absent" /\ files[c] = EmptyFiles
    /\ (CleanupDone /\ hist.existed /\ calls[2].ok) =>
           /\ result.ok
           /\ containers[p.container_id] = "absent"
           /\ p.container_id \in hist.cleaned
    /\ (OnContainer /\ p.container_id \in hist.cleaned /\ hist.existed) =>
           CleanupDone /\ result.ok
    /\ (OnContainer /\ pc = "done" /\ ~hist.existed) =>
           /\ result.error # ""
           /\ ~result.ok
           /\ ~result.hasLog
           /\ \A i \in DOMAIN calls : ~calls[i].ok
           /\ containers[p.container_id] = "absent"

\* a second cleanup_env of a container the first one removed
C13_Witness ==
    /\ CleanupDone
    /\ ~hist.first
    /\ ~hist.existed
    /\ p.container_id \in hist.cleaned
    /\ ~result.ok
    /\ result.error # ""

\* C14: the 30-second context of cleanup_env does not depend on the caller's:
\* when the caller's context ends during a cleanup_env of an existing
\* container, before container-stop or before container-remove is issued,
\* the context of those calls stays as it was, so they are still carried out.
C14_OwnThirtySecondBound ==
    [][(op = "cleanup_env" /\ hist.existed /\ ~ctxDone /\ ctxDone') =>
           runCtxDone' = runCtxDone]_vars

\* build_image_from_context has been called and has gone through its checks of
\* the context
BuildChecked == op = "build_image_from_context" /\ pc # "idle" /\ result.Error = ""

\* C15: when the Dockerfile of the context matches one of the forbidden
\* patterns (the socket path, -v followed by white space and then characters
\* other than white space up to docker.sock, --mount followed by characters
\* other than a newline up to docker.sock, privileged true; all case
\* insensitive), or the context is not a directory, or it has no readable
\* Dockerfile, build_image_from_context ends with status=error (a security
\* error for a forbidden pattern) and has issued no daemon call.
C15_ForbiddenDockerfileRefused ==
    LET str == hostfs.dockerfile.bytes
        AnyAt(i) == i <= Len(str) /\ str[i] # "\n"
        SockAt(j) ==
            /\ LitAt(str, j, <<"d", "o", "c", "k", "e", "r">>)
            /\ AnyAt(j + 6)
            /\ LitAt(str, j + 7, <<"s", "o", "c", "k">>)
        SockPath ==
            \E i \in 1 .. Len(str) :
                /\ LitAt(str, i, <<"/", "v", "a", "r", "/", "r", "u", "n", "/">>)
                /\ SockAt(i + 9)
        VolumeFlag ==
            \E i \in 1 .. Len(str) :
                /\ LitAt(str, i, <<"-", "v">>)
                /\ \E j \in (i + 3) .. Len(str) :
                       /\ SockAt(j)
                       /\ \E k \in (i + 2) .. (j - 1) :
                              /\ \A x \in (i + 2) .. k : IsRegexpSpace(str[x])
                              /\ \A x \in (k + 1) .. (j - 1) : ~IsRegexpSpace(str[x])
        MountFlag ==
            \E i \in 1 .. Len(str) :
                /\ LitAt(str, i, <<"-", "-", "m", "o", "u", "n", "t">>)
                /\ \E j \in (i + 7) .. Len(str) :
                       /\ SockAt(j)
                       /\ \A x \in (i + 7) .. (j - 1) : str[x] # "\n"
        Forbidden == SockPath \/ VolumeFlag \/ MountFlag \/ MatchesPrivileged(str)
    IN /\ (BuildChecked /\ (~hostfs.isDir \/ hostfs.dockerfile = NoFile \/ Forbidden)) =>
              /\ pc = "done"
              /\ result.status = "error"
              /\ calls = <<>>
       /\ (BuildChecked /\ p.context_id # <<>> /\ hostfs.isDir
               /\ hostfs.dockerfile # NoFile /\ Forbidden) =>
              result.error = SecurityError

BuildSucceeded == BuildChecked /\ pc = "done" /\ result.status = "success"

\* C16: for every input tag, every tag build_image_from_context passes to
\* image-build starts with agent-env:, and the tag of a status=success result
\* starts with agent-env: and is the one tag that was passed to image-build.
C16_BuildTagPrefixed ==
    BuildChecked =>
        /\ \A i \in DOMAIN calls :
               calls[i].op = "image-build" =>
                   /\ calls[i].tags # <<>>
                   /\ \A k \in DOMAIN calls[i].tags :
                          HasPrefix(calls[i].tags[k], AgentImageTagPrefix)
        /\ BuildSucceeded =>
               /\ HasPrefix(result.tag, AgentImageTagPrefix)
               /\ \E i \in DOMAIN calls : calls[i].op = "image-build"
               /\ \A i \in DOMAIN calls :
                      calls[i].op = "image-build" => calls[i].tags = <<result.tag>>

\* a successful build whose input tag was white space only
C16_Witness ==
    /\ BuildSucceeded
    /\ p.tag = <<" ", "\t">>
    /\ HasPrefix(result.tag, BuildTagStem)
    /\ calls[1].op = "image-build"
    /\ calls[1].tags = <<result.tag>>

\* C17: the tag of a successful build, given as the input tag of another
\* build at any time, resolves to itself: no second prefix is prepended and
\* the rebuild is tagged the same.
C17_ResolveTagIdempotent ==
    BuildSucceeded =>
        \A now \in UnixTimes : ResolveTag(result.tag, now) = result.tag

\* a successful build of a plain suffix, to which the prefix was prepended
C17_Witness ==
    /\ BuildSucceeded
    /\ p.tag = <<"m">>
    /\ result.tag = AgentImageTagPrefix \o <<"m">>

ListDone == op = "list_agent_images" /\ pc = "done" /\ result.error = ""

\* C18: whatever the daemon lists and whatever filter_tag is, every entry
\* list_agent_images returns has a non-empty list of tags, each of them
\* starts with agent-env: and, with a filter_tag, with the filter (trimmed,
\* agent-env: prepended when it holds no colon), and each is a tag of the
\* daemon's image of that id: an image with no such tag is not returned.
C18_OnlyAgentTagsListed ==
    LET trimmed == TrimSpaceStr(p.filter_tag)
        resolved == IF ContainsWord(trimmed, ":") THEN trimmed
                    ELSE AgentImageTagPrefix \o trimmed
    IN ListDone =>
           \A k \in DOMAIN result.images :
               LET entry == result.images[k]
               IN /\ entry.tags # <<>>
                  /\ \A n \in DOMAIN entry.tags :
                         /\ HasPrefix(entry.tags[n], AgentImageTagPrefix)
                         /\ p.filter_tag # <<>> => HasPrefix(entry.tags[n], resolved)
                  /\ \E im \in images :
                         /\ im.id = entry.id
                         /\ \A n \in DOMAIN entry.tags : ContainsWord(im.tags, entry.tags[n])

\* a filtered list of a store that holds an image with three tags, one of
\* them matching, and an image whose only tag is agent-envx:t
C18_Witness ==
    /\ ListDone
    /\ p.filter_tag = <<" ", "t", " ">>
    /\ Len(result.images) = 1
    /\ result.images[1].tags = <<TagT>>
    /\ \E im \in images : im.tags = <<TagLookalike>>
    /\ \E im \in images : im.id = result.images[1].id /\ Len(im.tags) = 3

DeleteStarted == op = "delete_image" /\ pc # "idle"

\* C19: with agent_env_only=true and a trimmed image reference that does not
\* start with agent-env:, and with an empty trimmed reference, delete_image
\* returns an error and issues no daemon call; every image-remove it issues
\* has prune_children false and the caller's force.
C19_DeleteGated ==
    LET img == TrimSpaceStr(p.image)
    IN DeleteStarted =>
           /\ (img = <<>> \/ (p.agent_env_only /\ ~HasPrefix(img, AgentImageTagPrefix))) =>
                  /\ pc = "done"
                  /\ result.error # ""
                  /\ ~result.ok
                  /\ calls = <<>>
           /\ \A i \in DOMAIN calls :
                  /\ calls[i].op = "image-remove"
                  /\ ~calls[i].pruneChildren
                  /\ calls[i].force = p.force
                  /\ calls[i].ref = img

\* delete_image of agent-envx:t under agent_env_only is refused and the image
\* is still there
C19_Witness ==
    /\ DeleteStarted
    /\ pc = "done"
    /\ p.agent_env_only
    /\ p.image = TagLookalike
    /\ result.error = AgentOnlyError
    /\ calls = <<>>
    /\ \E im \in images : im.tags = <<TagLookalike>>

\* main has written a JSON object for a tool it dispatches and has exited
MainExited == cli.tool \in DispatchedTools /\ Stdout # <<>>

\* C20: when main has written the JSON of a tool it dispatches, the exit code
\* is 0 if the object has no non-empty member error and no member status
\* with the value error, and 1 otherwise.
C20_ExitCodeTellsError ==
    MainExited =>
        LET json == Stdout[1]
            clean == \A m \in json :
                         /\ m[1] = "error" => m[2] = ""
                         /\ m[1] = "status" => m[2] # "error"
        IN ExitStatus = IF clean THEN 0 ELSE 1

\* the tool names the specification of the command line lists
RecognizedTools ==
    {"pull_image", "create_runtime_env", "execute_code_block", "get_container_logs",
     "cleanup_env", "prepare_build_context", "build_image_from_context",
     "build_image_from_path", "list_agent_images", "delete_image", "prune_build_cache"}

\* the process has exited through the default case of the switch on the tool
UnknownToolPath ==
    /\ pc = "done"
    /\ ~cli.called
    /\ \E i \in 1 .. Len(cli.stderr) - 1 :
           cli.stderr[i] = "unknown" /\ cli.stderr[i + 1] = "tool"

\* the process has exited after main reached the switch on the tool name
SwitchReached == pc = "done" /\ cli.gateway /\ cli.tool # "prepare_build_context"

\* C21: an invocation that names one of the eleven recognized tools never
\* ends in the unknown-tool path, and once main has reached the switch on the
\* tool name it has either called the operation or refused the payload; an
\* invocation that reaches the switch with any other name ends in the
\* unknown-tool path.
C21_ElevenToolsDispatched ==
    /\ cli.tool \in RecognizedTools => ~UnknownToolPath
    /\ (SwitchReached /\ cli.tool \in RecognizedTools) =>
           (cli.called \/ result.Error # "")
    /\ (SwitchReached /\ cli.tool \notin RecognizedTools) => UnknownToolPath

\* the adde process has exited
ProcessExited == pc = "done" /\ cli.run

\* C22: a process started without arguments has exited with code 2 and the
\* usage text on stderr; a process started with a tool name that is not
\* recognized has exited with code 2 and the unknown-tool diagnostic on
\* stderr; neither has made a daemon call.
C22_UsageErrorsExitTwo ==
    /\ (ProcessExited /\ cli.tool = "") =>
           /\ ExitStatus = 2
           /\ cli.stderr # <<>> /\ cli.stderr[1] = "usage:"
           /\ calls = <<>>
    /\ (ProcessExited /\ cli.tool \notin RecognizedTools \cup {""}) =>
           /\ ExitStatus = 2
           /\ UnknownToolPath
           /\ calls = <<>>

\* C23: a process started with a tool name that is not recognized has exited
\* with code 1 and the word unknown on stderr, as TestExeUnknownTool and
\* test_adde_cli.ps1 expect.
C23_UnknownToolExitsOne ==
    (ProcessExited /\ cli.tool \notin RecognizedTools \cup {""}) =>
        /\ ExitStatus = 1
        /\ \E i \in DOMAIN cli.stderr : cli.stderr[i] = "unknown"

\* C24: a step that ends a process started with a recognized tool and a
\* payload that does not parse ends it with exit code 1, a diagnostic on
\* stderr and one line of JSON with a single member on stdout; the operation
\* was not called, no daemon call was made, and no directory was staged.
C24_BadPayloadRefused ==
    [][(ProcessExited' /\ cli'.tool \in RecognizedTools
            /\ UnmarshalError(cli'.payload) # "" /\ cli'.payload # "unread") =>
           /\ ExitStatus' = 1
           /\ cli'.stderr # <<>>
           /\ Len(Stdout') = 1 /\ Cardinality(Stdout'[1]) = 1
           /\ ~cli'.called
           /\ calls' = <<>>
           /\ hostfs' = hostfs]_vars

\* C25: a process started with a recognized tool has written exactly one line
\* of JSON to stdout when it has exited, whether the operation succeeded or
\* failed, the payload was refused, the Docker client could not be
\* constructed or standard input could not be read.
C25_OneLineOfJSON ==
    (ProcessExited /\ cli.tool \in RecognizedTools) => Len(Stdout) = 1

\* C26: a process started with prepare_build_context has exited without the
\* Docker client and without a daemon call, with the directory its files
\* determine or with an error; a process that has called the operation of
\* any other tool has constructed the client before.
C26_PrepareNeedsNoGateway ==
    /\ (ProcessExited /\ cli.tool = "prepare_build_context") =>
           /\ ~cli.gateway
           /\ calls = <<>>
           /\ \A i \in DOMAIN cli.stderr : cli.stderr[i] # "docker"
           /\ cli.called =>
                  \/ result.error # "" /\ result.context_id = 0
                  \/ /\ result.error = ""
                     /\ result.context_id \in DOMAIN hostfs.staged
                     /\ hostfs.staged[result.context_id] = StagedDir(p.files)
    /\ (cli.run /\ cli.called /\ cli.tool # "prepare_build_context") => cli.gateway

\* prepare_build_context has returned its directory without the client
C26_Witness ==
    /\ ProcessExited
    /\ cli.tool = "prepare_build_context"
    /\ cli.called
    /\ result.error = ""
    /\ result.context_id = 1
    /\ hostfs.staged[1].generated = "FROM python:3-alpine"

\* C27: when the exec runner has read the exit code, the step in which
\* execute_code_block returns yields the log entry of what the runner
\* returned and no error, whether the put-archive of .adde_last_run.json in
\* that step succeeds or fails.
C27_PersistFailureIgnored ==
    [][(op = "execute_code_block" /\ pc = "execute_ret" /\ pc' # pc /\ ExitCodeRead) =>
           /\ pc' = "done"
           /\ result' = LogResult(LogEntryOf(loc.rx))
           /\ result'.error = ""
           /\ calls'[Len(calls')].op = "put-archive"
           /\ calls'[Len(calls')].tarName = lastRunPath]_vars

\* execute_code_block has returned the log of a run whose persisting
\* put-archive failed
C27_Witness ==
    /\ ExecuteDone
    /\ ExitCodeRead
    /\ calls[Len(calls)].op = "put-archive"
    /\ calls[Len(calls)].tarName = lastRunPath
    /\ ~calls[Len(calls)].ok
    /\ result.hasLog
    /\ result.error = ""
    /\ lastPersisted[p.container_id] # result.log

\* the number of newline-separated segments of the text b
Segments(b) == Cardinality({i \in DOMAIN b : b[i] = "\n"}) + 1

\* r is what follows a newline of s and has n segments, or all of s when s
\* has at most n
LastSegments(r, s, n) ==
    IF Segments(s) <= n THEN r = s
    ELSE /\ Segments(r) = n
         /\ \E k \in DOMAIN s : s[k] = "\n" /\ r = SubSeq(s, k + 1, Len(s))

\* C28: when get_container_logs has returned a log for tail_lines = N, its
\* exit_code and execution_time are those of the persisted log; for N > 0
\* its stdout and its stderr have at most N newline-separated segments and
\* are the last N segments of the persisted text, which is returned whole
\* when it has at most N; for N <= 0 both are the persisted text.
C28_TailKeepsLastSegments ==
    (LogsDone /\ result.hasLog) =>
        LET persisted == Unmarshal(LastRunFile).log
            n == p.tail_lines
        IN /\ result.log.ExitCode = persisted.ExitCode
           /\ result.log.ExecutionTime = persisted.ExecutionTime
           /\ n <= 0 => /\ result.log.Stdout = persisted.Stdout
                        /\ result.log.Stderr = persisted.Stderr
           /\ n > 0 => /\ Segments(result.log.Stdout.bytes) <= n
                       /\ Segments(result.log.Stderr.bytes) <= n
                       /\ LastSegments(result.log.Stdout.bytes,
                                       persisted.Stdout.bytes, n)
                       /\ LastSegments(result.log.Stderr.bytes,
                                       persisted.Stderr.bytes, n)

\* tail_lines = 2 on a stdout of three segments and a stderr that ends in a
\* newline: the first segment of each is cut off
C28_Witness ==
    /\ LogsDone
    /\ result.hasLog
    /\ p.tail_lines = 2
    /\ Unmarshal(LastRunFile).log.Stdout.bytes = <<"a", "\n", "\n">>
    /\ result.log.Stdout.bytes = <<"\n">>
    /\ result.log.Stderr.bytes = <<"F", "\n">>

\* an operation has returned
OperationDone == pc = "done" /\ op # "none"

IsDigits(tok) == tok \in {"8080", "80", OverflowPort}

\* an optional sign and decimal digits
Numeric(b) ==
    \/ Len(b) = 1 /\ IsDigits(b[1])
    \/ Len(b) = 2 /\ b[1] \in {"+", "-"} /\ IsDigits(b[2])

TrimmedContainerPort(e) == TrimSpaceStr(e[1])
TrimmedHostPort(e) == TrimSpaceStr(e[2])

\* an entry the claim says is dropped
InvalidEntry(e) ==
    \/ TrimmedHostPort(e) = <<>>
    \/ ~Numeric(TrimmedHostPort(e))
    \/ TrimmedContainerPort(e) = <<>>

\* the port key of an entry: its trimmed container port, /tcp when it names
\* no protocol
KeyOf(e) ==
    IF \E i \in DOMAIN TrimmedContainerPort(e) : TrimmedContainerPort(e)[i] = "/"
    THEN TrimmedContainerPort(e)
    ELSE TrimmedContainerPort(e) \o <<"/", "tcp">>

\* the binding an entry asks for
BindingOf(e) == [port |-> KeyOf(e), hostIP |-> "127.0.0.1", hostPort |-> TrimmedHostPort(e)]

\* the entries the loop parses: neither port empty, host port an int
ParsedEntries(pb) == {e \in pb : ~InvalidEntry(e) /\ TrimmedHostPort(e)[Len(TrimmedHostPort(e))] # OverflowPort}

\* C30: every port binding in a container-create request has host IP
\* 127.0.0.1, a numeric host port and a container port that is in the
\* request's exposed set; an entry whose trimmed host port is empty or not
\* numeric, or whose container port is empty, leaves no binding and no exposed
\* port, the request is sent all the same, and the other entries are bound as
\* they are without it: every port they name is exposed and bound to the host
\* port of one of the entries that name it.
C30_PortsBoundToLoopback ==
    /\ \A i \in DOMAIN calls :
           IsCreateCall(i) =>
               /\ \A b \in calls[i].portBindings :
                      /\ b.hostIP = "127.0.0.1"
                      /\ Numeric(b.hostPort)
                      /\ b.port \in calls[i].exposed
               /\ \A e \in p.port_bindings :
                      InvalidEntry(e) =>
                          /\ BindingOf(e) \notin calls[i].portBindings
                          /\ KeyOf(e) \in calls[i].exposed =>
                                 \E o \in ParsedEntries(p.port_bindings) : KeyOf(o) = KeyOf(e)
               /\ calls[i].exposed = {KeyOf(e) : e \in ParsedEntries(p.port_bindings)}
               /\ calls[i].portBindings \subseteq
                      {BindingOf(e) : e \in ParsedEntries(p.port_bindings)}
               /\ \A k \in calls[i].exposed :
                      Cardinality({b \in calls[i].portBindings : b.port = k}) = 1
    /\ (op = "create_runtime_env" /\ pc = "done"
            /\ ~\E i \in DOMAIN calls : IsCreateCall(i)) =>
           result.error = "failed to create workspace dir"

\* a create_runtime_env that succeeded although its map held an entry with a
\* host port that is no number and one with an empty container port; the
\* entry with white space around its ports is bound
C30_Witness ==
    /\ op = "create_runtime_env"
    /\ pc = "done"
    /\ result.error = ""
    /\ \E e \in p.port_bindings : TrimmedHostPort(e) = <<"http">>
    /\ \E e \in p.port_bindings : TrimmedContainerPort(e) = <<>>
    /\ \E i \in DOMAIN calls :
           /\ IsCreateCall(i)
           /\ calls[i].ok
           /\ calls[i].portBindings =
                  {[port |-> <<"3000", "/", "tcp">>, hostIP |-> "127.0.0.1",
                    hostPort |-> <<"80">>]}


PullDone == op = "pull_image" /\ pc = "done"
IsPullCall(i) == i \in DOMAIN calls /\ calls[i].op = "image-pull"

\* C31: pull_image returns ok=true only when the image-pull call succeeded
\* and its progress stream was read to EOF; when the call failed or the read
\* of the stream stopped before EOF the result holds an error and not
\* ok=true; a reference that is empty after trimming is refused with an
\* error and without a daemon call.
C31_PullReadsStreamToEOF ==
    PullDone =>
        /\ result.ok => \E i \in DOMAIN calls : IsPullCall(i) /\ calls[i].ok /\ calls[i].drained
        /\ (\E i \in DOMAIN calls : IsPullCall(i) /\ ~(calls[i].ok /\ calls[i].drained)) =>
               (result.error # "" /\ ~result.ok)
        /\ TrimSpaceStr(p.image) = <<>> => (result.error # "" /\ ~result.ok /\ calls = <<>>)

\* the environment holds none of the credentials: no ECR token, no user name
\* and no password of Docker Hub or of the generic registry
NoCredentials(env) ==
    /\ env.ADDE_ECR_TOKEN = <<>>
    /\ env.ADDE_DOCKERHUB_USERNAME = <<>> /\ env.ADDE_DOCKERHUB_PASSWORD = <<>>
    /\ env.ADDE_REGISTRY_USERNAME = <<>> /\ env.ADDE_REGISTRY_PASSWORD = <<>>

\* C32: under an environment without credentials, pull_image of any reference
\* that is not empty gets the empty auth string and no error from the auth
\* resolver, and issues its image-pull call without auth.
C32_NoCredentialNoAuthNoError ==
    (op = "pull_image" /\ NoCredentials(environ) /\ TrimSpaceStr(p.image) # <<>>) =>
        /\ pc = "image_pull" => loc.auth = NoAuth
        /\ pc = "done" =>
               \E i \in DOMAIN calls : IsPullCall(i) /\ calls[i].registryAuth = NoAuth

\* prepare_build_context has returned a context directory
PrepareSucceeded ==
    /\ op = "prepare_build_context"
    /\ pc = "done"
    /\ result.error = ""
    /\ result.context_id \in DOMAIN hostfs.staged

\* the files mapping has a key whose base name is requirements.txt or
\* package.json, or a key whose base name is Dockerfile
HasManifestOrDockerfile(fm) ==
    \E name \in fm : Base(name) \in {RequirementsTxt, PackageJson, DockerfileName}

\* C33: after prepare_build_context has succeeded on a files mapping with a
\* recognized manifest or a Dockerfile of the caller, the directory it
\* returned holds a file Dockerfile at its root, which is the file
\* build_image_from_context reads.
C33_PreparedContextHasDockerfile ==
    (PrepareSucceeded /\ HasManifestOrDockerfile(p.files)) =>
        <<DockerfileName>> \in hostfs.staged[result.context_id].files

\* the step leaves another .adde_last_run.json in container c
LastRunFileWritten(c) ==
    /\ files'[c][lastRunPath] # files[c][lastRunPath]
    /\ files'[c][lastRunPath] # NoFile

\* C34: no step of get_container_logs changes a file of a container, and the
\* operation issues no put-archive call, whatever tail_lines is; every step
\* that leaves another .adde_last_run.json in a container is a step of
\* execute_code_block.
C34_LogsReadOnly ==
    [][/\ op' = "get_container_logs" =>
              /\ files' = files
              /\ \A i \in DOMAIN calls' : calls'[i].op # "put-archive"
       /\ \A c \in CIDs : LastRunFileWritten(c) => op' = "execute_code_block"]_vars

\* get_container_logs has returned a log whose stdout it trimmed to the last
\* line, while the file holds the whole log
C34_Witness ==
    /\ LogsDone
    /\ result.hasLog
    /\ p.tail_lines = 1
    /\ Unmarshal(LastRunFile).ok
    /\ Unmarshal(LastRunFile).log.Stdout # result.log.Stdout
    /\ Unmarshal(LastRunFile).log = lastPersisted[p.container_id]

BuildDone == op = "build_image_from_context" /\ pc = "done"
IsBuildCall(i) == i \in DOMAIN calls /\ calls[i].op = "image-build" /\ calls[i].ok
InspectCalled == \E i \in DOMAIN calls : calls[i].op = "image-inspect"

\* a line of the build stream that is a JSON object with a member "error"
IsErrorLine(l) == l # <<>> /\ l[1] = "{" /\ \E k \in DOMAIN l : l[k] = "\"error\""
ErrorLines(lines) == {k \in DOMAIN lines : IsErrorLine(lines[k])}
LastErrorLine(lines) ==
    TrimSpaceStr(lines[CHOOSE k \in ErrorLines(lines) : \A j \in ErrorLines(lines) : j <= k])

\* the result reports the error line, and image-inspect was not called
ReportsErrorLine(lines) ==
    /\ result.status = "error"
    /\ result.error # ""
    /\ result.build_log_summary = LastErrorLine(lines)
    /\ result.failed_layer = LastErrorLine(lines)
    /\ ~InspectCalled

\* the result is a success; a failed image-inspect leaves id and size zero
SucceedsWhateverInspect ==
    /\ result.status = "success"
    /\ result.error = ""
    /\ InspectCalled
    /\ \A i \in DOMAIN calls :
           (calls[i].op = "image-inspect" /\ ~calls[i].ok) =>
               (result.image_id = 0 /\ result.size = 0)

\* C35 as stated: whenever the image-build call succeeded, an error line in
\* its stream gives status=error with the line as summary and failed layer
\* and no image-inspect, and a stream without error line gives status=success
\* whatever image-inspect does.
C35_Original ==
    BuildDone =>
        \A i \in DOMAIN calls :
            IsBuildCall(i) =>
                IF ErrorLines(calls[i].stream) # {}
                THEN ReportsErrorLine(calls[i].stream)
                ELSE SucceedsWhateverInspect

\* C35: when the build stream was read to its end, an error line in it gives
\* status=error with a non-empty error, the last error line as summary and
\* failed layer and no image-inspect call, and a stream without error line
\* gives status=success even when image-inspect fails; when reading the
\* stream fails the result is status=error with the error of the read, no
\* summary, no failed layer and no image-inspect call.
C35_StreamErrorFirst ==
    BuildDone =>
        \A i \in DOMAIN calls :
            IsBuildCall(i) =>
                IF ~calls[i].scanOK
                THEN /\ result.status = "error"
                     /\ result.error # ""
                     /\ result.build_log_summary = <<>>
                     /\ result.failed_layer = <<>>
                     /\ ~InspectCalled
                ELSE IF ErrorLines(calls[i].stream) # {}
                THEN ReportsErrorLine(calls[i].stream)
                ELSE SucceedsWhateverInspect

\* a build whose stream held no error line and whose image-inspect failed:
\* status=success without image id
C35_Witness ==
    /\ BuildDone
    /\ result.status = "success"
    /\ result.image_id = 0
    /\ \E i \in DOMAIN calls : IsBuildCall(i) /\ calls[i].scanOK /\ calls[i].stream # <<>>
    /\ \E i \in DOMAIN calls : calls[i].op = "image-inspect" /\ ~calls[i].ok

\* the base name of a file name: what follows its last "/"
BaseName(filename) ==
    LET slashes == {i \in DOMAIN filename : filename[i] = "/"}
    IN IF slashes = {} THEN filename
       ELSE SubSeq(filename, 1 + (CHOOSE i \in slashes : \A j \in slashes : j <= i),
                   Len(filename))

\* C36: the put-archive of the source in execute_code_block carries one tar
\* entry whose name is the base name of filename, whose mode is 0644, whose
\* size is the length of code_content and whose content is code_content;
\* the path in the command of the exec that follows is /workspace/ and that
\* entry name.
C36_TarEntryIsBaseName ==
    (op = "execute_code_block" /\ Len(calls) > 0) =>
        /\ calls[1].op = "put-archive"
        /\ calls[1].tarName = BaseName(p.filename)
        /\ calls[1].tarMode = 420
        /\ calls[1].tarSize = Len(p.code_content)
        /\ calls[1].payload = Raw(p.code_content)
        /\ \A i \in DOMAIN calls :
               calls[i].op = "exec-create" =>
                   calls[i].cmd[Len(calls[i].cmd)]
                       = <<"/workspace", "/">> \o calls[1].tarName

\* the reference names no registry host: it has no "/"
NoHostSegment(ref) == Index(ref, "/") = 0

BothHubCredentials(env) ==
    env.ADDE_DOCKERHUB_USERNAME # <<>> /\ env.ADDE_DOCKERHUB_PASSWORD # <<>>

\* C37: for a reference without registry-host segment the auth resolver
\* derives the host index.docker.io, and with both Docker Hub variables set
\* the image-pull call of pull_image carries the Docker Hub credentials.
C37_BareNameUsesDockerHub ==
    (op = "pull_image" /\ TrimSpaceStr(p.image) # <<>>
         /\ NoHostSegment(TrimSpaceStr(p.image))) =>
        /\ registryHostFromImage(p.image) = IndexDockerIo
        /\ BothHubCredentials(environ) =>
               \A i \in DOMAIN calls :
                   IsPullCall(i) =>
                       /\ calls[i].registryAuth.encoded
                       /\ calls[i].registryAuth.username = environ.ADDE_DOCKERHUB_USERNAME
                       /\ calls[i].registryAuth.password = environ.ADDE_DOCKERHUB_PASSWORD

\* the registry host of a reference: the segment before its first slash
HostSegment(ref) == IF Index(ref, "/") > 0 THEN SubSeq(ref, 1, Index(ref, "/") - 1) ELSE ref

\* the host is one of ECR
IsEcrHost(host) == HasSubSeq(host, DkrEcr) \/ HasSubSeq(host, AmazonawsCom)

\* the host is the public hub
IsHubHost(host) == host \in {IndexDockerIo, DockerIo}

\* the host is the configured generic registry, its scheme stripped
IsConfiguredRegistry(host, env) ==
    LET url == TrimSpaceStr(env.ADDE_REGISTRY_URL)
        stripped == IF HasPrefix(url, <<"https", ":", "/", "/">>) THEN SubSeq(url, 5, Len(url))
                    ELSE IF HasPrefix(url, <<"http", ":", "/", "/">>) THEN SubSeq(url, 5, Len(url))
                    ELSE url
    IN stripped # <<>> /\ host = stripped

\* the classes of credential an auth string carries
UsesEcrToken(auth, env) ==
    auth.encoded /\ env.ADDE_ECR_TOKEN # <<>> /\ auth.password = TrimSpaceStr(env.ADDE_ECR_TOKEN)
UsesRegistryPassword(auth, env) ==
    auth.encoded /\ env.ADDE_REGISTRY_PASSWORD # <<>>
        /\ auth.password = env.ADDE_REGISTRY_PASSWORD
UsesHubPassword(auth, env) ==
    auth.encoded /\ env.ADDE_DOCKERHUB_PASSWORD # <<>>
        /\ auth.password = env.ADDE_DOCKERHUB_PASSWORD

\* C38: the image-pull call of pull_image carries the ECR token only when the
\* registry host of the reference contains .dkr.ecr. or amazonaws.com, the
\* password of the generic registry only when the host is ADDE_REGISTRY_URL
\* without its scheme, and the Docker Hub password only when the host is the
\* public hub.
C38_CredentialsStayWithTheirRegistry ==
    \A i \in DOMAIN calls :
        IsPullCall(i) =>
            LET host == HostSegment(calls[i].ref)
                auth == calls[i].registryAuth
            IN /\ UsesEcrToken(auth, environ) => IsEcrHost(host)
               /\ UsesRegistryPassword(auth, environ) => IsConfiguredRegistry(host, environ)
               /\ UsesHubPassword(auth, environ) =>
                      IsHubHost(registryHostFromImage(calls[i].ref))

\* execute_code_block has returned an error
ExecuteFailed == op = "execute_code_block" /\ pc = "done" /\ result.error # ""

\* C39: when execute_code_block has returned an error,
\* /workspace/.adde_last_run.json of its container is what it was when the
\* invocation began.
C39_FailedRunKeepsLastRun ==
    ExecuteFailed => files[p.container_id][lastRunPath] = aux.lastRun

\* the text StdCopy collects from the frames written to stream fd
RECURSIVE Collected(_, _)
Collected(frames, fd) ==
    IF frames = <<>> THEN EmptyText
    ELSE LET f == frames[Len(frames)]
             before == Collected(SubSeq(frames, 1, Len(frames) - 1), fd)
         IN IF f.fd = fd THEN BufWrite(before, f.data) ELSE before

\* log is what running the command of params yields when the file it names
\* holds code
LogOfRunning(log, params, code) ==
    LET fs == [EmptyFiles EXCEPT ![params.filename] = Raw(code)]
        b == Behaviour(ExecuteCommand(params), fs)
    IN /\ log.ExitCode = b.exitCode
       /\ log.Stdout = Collected(b.frames, 1)
       /\ log.Stderr = Collected(b.frames, 2)

\* the invocation inv has returned a log
ReturnedLog(inv) == inv.op = "execute_code_block" /\ inv.pc = "done" /\ inv.result.hasLog

\* the process whose turn it is, as a record like peer
Running == [op |-> op, pc |-> pc, p |-> p, result |-> result, calls |-> calls]

\* the log inv returned is the result of running the code of other and not
\* its own, both naming the same container and file
RanCodeOf(inv, other) ==
    /\ ReturnedLog(inv)
    /\ other.op = "execute_code_block"
    /\ other.p.container_id = inv.p.container_id
    /\ other.p.filename = inv.p.filename
    /\ other.p.code_content # inv.p.code_content
    /\ LogOfRunning(inv.result.log, inv.p, other.p.code_content)
    /\ ~LogOfRunning(inv.result.log, inv.p, inv.p.code_content)

\* C40: of two processes that invoke execute_code_block at the same time, one
\* that has returned a log has the log of running its own code_content, unless
\* the two have changed turns inside an invocation; then the log may be that of
\* running the code_content of the other, which names the same container and
\* file.
C40_LogFromOwnCodeUnlessInterleaved ==
    /\ ReturnedLog(Running) =>
           \/ LogOfRunning(result.log, p, p.code_content)
           \/ peer.interleaved /\ RanCodeOf(Running, peer)
    /\ ReturnedLog(peer) =>
           \/ LogOfRunning(peer.result.log, peer.p, peer.p.code_content)
           \/ peer.interleaved /\ RanCodeOf(peer, Running)

\* the race: the other process uploaded its source between this one's upload
\* and its exec, and this one has returned the log of the other's code
C40_Witness ==
    /\ RanCodeOf(Running, peer)
    /\ Len(peer.calls) >= 1
    /\ peer.calls[1].op = "put-archive"
    /\ peer.calls[1].ok
    /\ calls[1].op = "put-archive"
    /\ calls[1].ok


=============================================================================
